---------------------------- MODULE Spec2Model ----------------------------
(***************************************************************************)
(* The EG4 protocol engine of eg4-bridge: CustomModbusClient               *)
(* (python/backup_inverter_config.py) and EG4ModbusClient                  *)
(* (python_eg4_reader.py) talking to one data logger over one TCP stream.  *)
(* Frames are byte sequences; the device and the TCP delivery are the      *)
(* environment.                                                            *)
(***************************************************************************)
EXTENDS Integers, Sequences, FiniteSets, TLC

(***************************************************************************)
(* Bounds of the model.                                                    *)
(***************************************************************************)
MaxNet == 1
MaxPending == 2
\* try_connect_and_read scans the start registers below ScanEnd (the code
\* scans those below 65536).
ScanEnd == 100
\* The byte sequences calculate_crc16 is called on have up to MaxLen bytes.
MaxLen == 2
\* The register schema load_register_map reads has up to MaxDefs entries,
\* and the raw_data of a datalog entry up to MaxItems registers.
MaxDefs == 3
MaxItems == 2

(***************************************************************************)
(* Program constants.                                                      *)
(***************************************************************************)
max_retries == 3
delay_ms == 200
eg4_retry_sleep_ms == 1000
min_header_len == 19
min_packet_len == 21
\* try_connect_and_read: the retries of one batch, the sleep between them,
\* the consecutive failures that stop the scan, the first batch and the
\* batch size, the registers of the initial answer it processes, and the
\* end of the address space.
batch_max_retries == 3
retry_delay_ms == 1000
max_consecutive_failures == 3
first_batch == 20
batch_step == 20
initial_limit == 21
address_space == 65536

\* The count of sent requests is kept exactly up to one more than the retry
\* budget allows.
SentCap == max_retries + 1

(***************************************************************************)
(* Bytes and Python slices.                                                *)
(***************************************************************************)
Min(a, b) == IF a < b THEN a ELSE b

\* s[a:b] of Python for 0 <= a, with b clamped to the length.
Slice(s, a, b) == SubSeq(s, a + 1, Min(b, Len(s)))

\* A conversion that writes the high byte first.
to_bytes_be(n) == << (n % 65536) \div 256, (n % 65536) % 256 >>

\* n.to_bytes(2, byteorder='little') after masking with 0xFFFF.
to_bytes_le(n) == << (n % 65536) % 256, (n % 65536) \div 256 >>

\* int.from_bytes(b, byteorder='little') of a slice of one or two bytes.
from_bytes_le(b) ==
    IF Len(b) = 0 THEN 0
    ELSE IF Len(b) = 1 THEN b[1]
    ELSE b[1] + 256 * b[2]

\* a with the bit of weight p (a power of two) inverted.
flip(a, p) == IF (a \div p) % 2 = 1 THEN a - p ELSE a + p

RECURSIVE Xor(_, _)
\* a ^ b on non-negative integers, bit by bit from the lowest.
Xor(a, b) ==
    IF a = 0 THEN b
    ELSE IF b = 0 THEN a
    ELSE ((a + b) % 2) + 2 * Xor(a \div 2, b \div 2)

\* crc ^ 0xA001: 0xA001 has the bits of weight 0x8000, 0x2000 and 0x0001.
xor_A001(crc) == flip(flip(flip(crc, 32768), 8192), 1)

\* One step of the inner loop of calculate_crc16: shift right and, when the
\* bit shifted out is set, XOR with 0xA001.
crc_shift(c) ==
    [crc \in 0..65535 |->
        IF crc % 2 = 1 THEN xor_A001(crc \div 2) ELSE crc \div 2][c]

\* One pass of the outer loop of calculate_crc16: crc ^= b, then the inner
\* loop's 8 steps.
crc_byte(crc, b) ==
    crc_shift(crc_shift(crc_shift(crc_shift(
    crc_shift(crc_shift(crc_shift(crc_shift(Xor(crc, b)))))))))

RECURSIVE crc_fold(_, _)
\* The outer loop of calculate_crc16: the running CRC after the first n bytes.
crc_fold(data, n) ==
    IF n = 0 THEN 65535
    ELSE [crc \in 0..65535 |-> crc_byte(crc, data[n])][crc_fold(data, n - 1)]

\* A calculate_crc16 that returns the high byte first.
calculate_crc16_high_first(data) ==
    [crc \in 0..65535 |-> << (crc \div 256) % 256, crc % 256 >>]
        [crc_fold(data, Len(data))]

\* CustomModbusClient.calculate_crc16: the CRC as two bytes, low byte first.
calculate_crc16(data) ==
    [crc \in 0..65535 |-> << crc % 256, (crc \div 256) % 256 >>]
        [crc_fold(data, Len(data))]


RECURSIVE utf8_ok(_, _)
\* bytes.decode() (strict UTF-8) succeeds on b from position i on.
utf8_ok(b, i) ==
    IF i > Len(b) THEN TRUE
    ELSE LET c == b[i]
             cont(j, lo, hi) == j <= Len(b) /\ b[j] >= lo /\ b[j] <= hi
         IN  IF c < 128 THEN utf8_ok(b, i + 1)
             ELSE IF c \in 194..223
                  THEN cont(i + 1, 128, 191) /\ utf8_ok(b, i + 2)
             ELSE IF c = 224
                  THEN cont(i + 1, 160, 191) /\ cont(i + 2, 128, 191)
                       /\ utf8_ok(b, i + 3)
             ELSE IF c \in (225..236) \cup (238..239)
                  THEN cont(i + 1, 128, 191) /\ cont(i + 2, 128, 191)
                       /\ utf8_ok(b, i + 3)
             ELSE IF c = 237
                  THEN cont(i + 1, 128, 159) /\ cont(i + 2, 128, 191)
                       /\ utf8_ok(b, i + 3)
             ELSE IF c = 240
                  THEN cont(i + 1, 144, 191) /\ cont(i + 2, 128, 191)
                       /\ cont(i + 3, 128, 191) /\ utf8_ok(b, i + 4)
             ELSE IF c \in 241..243
                  THEN cont(i + 1, 128, 191) /\ cont(i + 2, 128, 191)
                       /\ cont(i + 3, 128, 191) /\ utf8_ok(b, i + 4)
             ELSE IF c = 244
                  THEN cont(i + 1, 128, 143) /\ cont(i + 2, 128, 191)
                       /\ cont(i + 3, 128, 191) /\ utf8_ok(b, i + 4)
             ELSE FALSE

\* The .decode() calls in the log lines of read_response do not raise.
decodes(b) == utf8_ok(b, 1)

\* Each register is 2 bytes in little-endian order: num_registers = len // 2.
extract_values(response) ==
    [i \in 1..(Len(response) \div 2) |->
        from_bytes_le(Slice(response, (i - 1) * 2, (i - 1) * 2 + 2))]

RECURSIVE find_from(_, _, _)
\* bytes.find(pat) for a two-byte pattern: the 0-based position, or -1.
find_from(b, pat, i) ==
    IF i + 1 > Len(b) THEN -1
    ELSE IF b[i] = pat[1] /\ b[i + 1] = pat[2] THEN i - 1
    ELSE find_from(b, pat, i + 1)

magic == <<161, 26>>
find_magic(b) == find_from(b, magic, 1)

(***************************************************************************)
(* Frame builders of the two clients.                                      *)
(***************************************************************************)
\* bytearray(10), the initial datalog ID and inverter serial.
Zero10 == <<0, 0, 0, 0, 0, 0, 0, 0, 0, 0>>

\* A build_packet that writes the initial serial instead of the stored one.
Custom_build_packet_initial_serial(dl, serial, register_address, cnt) ==
    LET payload == <<0, 3>> \o Zero10 \o to_bytes_le(register_address)
                      \o to_bytes_le(cnt)
        header  == magic \o to_bytes_le(1) \o to_bytes_le(Len(payload) + 12)
                      \o <<1, 194>> \o dl
    IN  header \o payload \o calculate_crc16(header \o payload)

\* A build_packet that computes the CRC over the payload only.
Custom_build_packet_crc_of_payload(dl, serial, register_address, cnt) ==
    LET payload == <<0, 3>> \o serial \o to_bytes_le(register_address)
                      \o to_bytes_le(cnt)
        header  == magic \o to_bytes_le(1) \o to_bytes_le(Len(payload) + 12)
                      \o <<1, 194>> \o dl
    IN  header \o payload \o calculate_crc16(payload)

\* CustomModbusClient.build_packet with the given session fields.
Custom_build_packet(dl, serial, register_address, cnt) ==
    LET payload == <<0, 3>> \o serial \o to_bytes_le(register_address)
                      \o to_bytes_le(cnt)
        header  == magic \o to_bytes_le(1) \o to_bytes_le(Len(payload) + 12)
                      \o <<1, 194>> \o dl
    IN  header \o payload \o calculate_crc16(header \o payload)

\* A build_heartbeat_packet that writes the frame length 13.
Custom_build_heartbeat_packet_length_13(dl) ==
    magic \o to_bytes_le(2) \o to_bytes_le(13) \o <<1, 193>> \o dl \o <<0>>

\* CustomModbusClient.build_heartbeat_packet.
Custom_build_heartbeat_packet(dl) ==
    magic \o to_bytes_le(2) \o to_bytes_le(18) \o <<1, 193>> \o dl \o <<0>>

\* EG4ModbusClient.build_packet: header and payload, nothing appended.
EG4_build_packet(dl, serial, register_address, cnt, is_input) ==
    LET payload == <<0, IF is_input THEN 4 ELSE 3>> \o serial
                      \o to_bytes_le(register_address) \o to_bytes_le(cnt)
        header  == magic \o to_bytes_le(1) \o to_bytes_le(Len(payload) + 12)
                      \o <<1, IF is_input THEN 195 ELSE 194>> \o dl
    IN  header \o payload

\* The heartbeat reply EG4ModbusClient.read_response builds.
EG4_heartbeat_response(dl) ==
    magic \o to_bytes_le(2) \o to_bytes_le(13) \o <<1, 193>> \o dl \o <<0>>

(***************************************************************************)
(* The environment: the data logger and the TCP stream towards the client. *)
(***************************************************************************)
IdA == <<65, 65, 65, 65, 65, 65, 65, 65, 65, 65>>
IdB == <<66, 66, 66, 66, 66, 66, 66, 66, 66, 66>>
\* Ten bytes that are not valid UTF-8.
IdX == <<255, 255, 255, 255, 255, 255, 255, 255, 255, 255>>

\* The (start_reg, count) pairs the caller asks for.
Requests == { <<0, 1>>, <<20, 2>> }

\* The start registers of the batches try_connect_and_read scans, and the
\* count it asks for at each.
range_step(start, stop) ==
    { b \in start..(stop - 1) : (b - start) % batch_step = 0 }
Batches == range_step(first_batch, ScanEnd)
\* A count that is not adjusted for the last batch.
batch_count_whole(b) == batch_step
batch_count(b) == Min(batch_step, address_space - b)
\* The requests of try_connect_and_read: the initial one and the batches.
ScanRequests == { <<0, 1>> } \cup { <<b, batch_count(b)>> : b \in Batches }

\* The hold register numbers the register schema defines.
hold_registers == {0, 25}
\* Those of them the caller of EG4ModbusClient asks for with is_input=True.
InputRequests == { <<20, 2>> }

\* The content of the device's register a.  The holding registers 12..14
\* hold the clock, one BCD byte per field: year 24 and month 11, day 3 and
\* hour 12, minute 20 and second 45; register 15 is zero.
DevReg(a) ==
    IF a = 12 THEN 4388
    ELSE IF a = 13 THEN 4611
    ELSE IF a = 14 THEN 17696
    ELSE IF a = 15 THEN 0
    ELSE (a * 259 + 4660) % 65536

RECURSIVE DevWords(_, _)
\* The register words start..start+cnt-1, each little-endian.
DevWords(start, cnt) ==
    IF cnt = 0 THEN <<>>
    ELSE to_bytes_le(DevReg(start)) \o DevWords(start + 1, cnt - 1)

\* How the device may answer a request: the identity it reports, whether
\* the trailing CRC is right, the error code, the protocol version in the
\* header, and how many registers more than asked the answer carries.
Plain ==
    [D |-> IdA, S |-> IdA, ok |-> TRUE, err |-> 0, ver |-> 1, more |-> 0,
     bare |-> FALSE]
Variants ==
    { Plain,
      [Plain EXCEPT !.D = IdB, !.S = IdB],
      [Plain EXCEPT !.D = IdB, !.ok = FALSE] }

\* The device rejects the request with error code 0x02, "Data address error".
Rejected == [Plain EXCEPT !.err = 2]
\* The device answers with protocol version 2 in the header.
Version2 == [Plain EXCEPT !.ver = 2]
\* The device answers with one register more than asked: the processing of
\* the initial answer in try_connect_and_read reads the values in pairs.
OneMore == [Plain EXCEPT !.more = 1]
\* The device reports a datalog ID that bytes.decode() raises on.
Undecodable == [Plain EXCEPT !.D = IdX]
\* The device frames a response the way EG4ModbusClient reads one: the
\* 18-byte header with frame_length = 8 + the length of the data, then the
\* register words as the data; with the registers asked for, or one more.
Bare == [Plain EXCEPT !.bare = TRUE]
BareMore == [Plain EXCEPT !.bare = TRUE, !.more = 1]

NoFrame == [kind |-> "none", bytes |-> <<>>, req |-> <<>>, var |-> Plain,
            D |-> <<>>, S |-> <<>>, ok |-> FALSE, err |-> 0]

\* A data response as CustomModbusClient.read_response slices it: 19 bytes
\* of header (magic, version 1, frame length, reserved, function, datalog ID
\* at 8..17, and at 18 the byte EG4ModbusClient reads as the error code),
\* a data section with the serial at 3..12 followed by the register words,
\* and the CRC16 of the data section.
DeviceResponse(v, req) ==
    LET section == <<0, 3, v.err>> \o v.S
                     \o DevWords(req[1], req[2] + v.more)
        crc     == calculate_crc16(section)
        tail    == IF v.ok THEN crc ELSE << (crc[1] + 1) % 256, crc[2] >>
        total   == 19 + Len(section) + 2
        words   == DevWords(req[1], req[2] + v.more)
        bytes   == IF v.bare
                   THEN magic \o to_bytes_le(v.ver)
                          \o to_bytes_le(8 + Len(words)) \o <<1, 194>>
                          \o v.D \o words
                   ELSE magic \o to_bytes_le(v.ver) \o to_bytes_le(total - 6)
                          \o <<1, 194>> \o v.D \o <<v.err>> \o section
                          \o tail
    IN  [kind |-> "data", bytes |-> bytes, req |-> req, var |-> v,
         D |-> v.D, S |-> v.S, ok |-> v.ok, err |-> v.err]

\* A heartbeat of the device: version 2, function 0xC1, its datalog ID.
DeviceHeartbeat(D) ==
    [kind |-> "heartbeat",
     bytes |-> magic \o to_bytes_le(2) \o to_bytes_le(13) \o <<1, 193>>
                 \o D \o <<0>>,
     req |-> <<>>, var |-> Plain, D |-> D, S |-> <<>>, ok |-> TRUE,
     err |-> 0]

\* The frames the device answers with, built once.
ResponseFrames ==
    { DeviceResponse(v, r) :
        v \in Variants \cup {Rejected, Version2, Undecodable},
        r \in Requests }
    \cup { DeviceResponse(v, r) : v \in {Plain, OneMore}, r \in ScanRequests }
    \cup { DeviceResponse(v, <<12, 3>>) : v \in {Plain, Bare, BareMore} }
HeartbeatFrames == { DeviceHeartbeat(IdB), DeviceHeartbeat(IdX) }

\* Where TCP may cut a frame into two deliveries: after the 18-byte header,
\* and after the 21 bytes CustomModbusClient.read_response waits for.
CutPoints == {18, 21}

\* The device and the stream of one behaviour: the ways the device answers,
\* where TCP cuts a frame, and whether TCP delivers the rest of a frame the
\* client has read a part of together with the frame that follows it.
BaseDevice ==
    [variants |-> Variants, cuts |-> CutPoints, coalesce |-> FALSE,
     beats |-> {IdB}]

\* A device that may reject a request or answer with protocol version 2, on
\* a stream that cuts frames after the header and coalesces deliveries.
WideDevice ==
    [variants |-> {Plain, Rejected, Version2}, cuts |-> {18},
     coalesce |-> TRUE, beats |-> {IdB}]

\* The device try_connect_and_read scans: it answers with the registers
\* asked for or with one more, in whole frames, or it stays silent.
ScanDevice ==
    [variants |-> {Plain, OneMore}, cuts |-> {}, coalesce |-> FALSE,
     beats |-> {IdB}]

\* The device the user of the methods talks to: it reports one of two
\* identities, or a datalog ID that is not valid UTF-8, in whole frames.
ApiDevice ==
    [variants |-> {Plain, [Plain EXCEPT !.D = IdB, !.S = IdB], Undecodable},
     cuts |-> {}, coalesce |-> FALSE, beats |-> {IdB}]

\* The device python_eg4_reader.py talks to: it answers in the layout of
\* either client, TCP may deliver the header on its own, and its heartbeats
\* carry a datalog ID that is text or one that is not.
ReaderDevice ==
    [variants |-> {Plain, Bare, BareMore}, cuts |-> {18}, coalesce |-> FALSE,
     beats |-> {IdB, IdX}]

(***************************************************************************)
(* State.                                                                  *)
(***************************************************************************)
VARIABLES
    cls,              \* which client class the object is: "Custom" or "EG4"
    sock,             \* self.sock: "None", "open", or "unconnected"
    datalog_id,       \* self.datalog_id
    inverter_serial,  \* self.inverter_serial
    pc,               \* where the read call stands: idle, loop, recv, recv1..3
    start_reg,        \* arguments of the read call in progress
    count,
    is_input,
    retry_count,      \* the local retry_count of the read call
    data,             \* the bytes read_response has buffered so far
    packet,           \* the request packet built in this loop iteration
    outcome,          \* how the last call ended: none, values, raised, None
    values,           \* the list the last call returned
    net,              \* frames on their way to the client, with the offset
                      \* of the first byte not yet delivered
    pending,          \* requests the device has received and not answered
    peer,             \* "up", or "closed" once the device closed the stream
    sent,             \* request frames sent by the call in progress
    slept,            \* milliseconds the call in progress spent in time.sleep
    from,             \* the device frame the buffered bytes start with
    last_rx,          \* what the latest read_response of the call ended with
    session_src,      \* the identity of the device frame the session holds
    all_timeouts,     \* a call was made, and every receive of the latest one
                      \* has timed out
    hb_fail,          \* retry_count increments caused by a heartbeat
    env_clean,        \* the device answered every request, in order, with a
                      \* valid frame delivered whole, and nothing timed out
    device,           \* the device and the stream the client talks to
    scan_pc,          \* try_connect_and_read: off, start, initial, batch,
                      \* done; method while the method of that name reads
    scan_reg,         \* its loop variable start_reg
    retry,            \* its loop variable retry
    consecutive_failures,
    config_data,      \* for each register config_data has an entry for,
                      \* the raw value the entry was decoded from
    result,           \* what it returned: none, None or config; the
                      \* method: None, values, or raised
    batch_log,        \* for each batch it has left, whether it succeeded
    prior_sent,       \* request frames the earlier reads of the batch sent
    hb_due,           \* a batch succeeded and send_heartbeat was not called
                      \* since
    call              \* the latest call of a function or method made on its
                      \* own: its name, its arguments and what it returned

clientVars == <<cls, sock, datalog_id, inverter_serial, pc, start_reg, count,
                is_input, retry_count, data, packet, outcome, values>>
envVars == <<net, pending, peer>>
ResponseTo(r) ==
    { f \in ResponseFrames : f.req = r /\ f.var \in device.variants }
ghostVars == <<sent, slept, from, last_rx, session_src, all_timeouts,
               hb_fail, env_clean>>
scanVars == <<scan_pc, scan_reg, retry, consecutive_failures, config_data,
              result, batch_log, prior_sent, hb_due>>
otherVars == <<device, scanVars, call>>
vars == <<clientVars, envVars, ghostVars, otherVars>>

\* The datalog ID and serial a device frame carries.
NoIdent == [D |-> <<>>, S |-> <<>>]
Ident(f) == [D |-> f.D, S |-> f.S]

NoRx == [kind |-> "none", f |-> NoFrame, crc_ok |-> FALSE, reply |-> <<>>]

\* A call that has returned out, and one that was made and has not returned.
NoCall == [fn |-> "none", arg |-> <<>>, out |-> <<>>, returned |-> TRUE]
Called(fn, arg, out) ==
    [fn |-> fn, arg |-> arg, out |-> out, returned |-> TRUE]
Asked(fn, arg) == [fn |-> fn, arg |-> arg, out |-> <<>>, returned |-> FALSE]
Rx(kind, f, crc_ok) ==
    [kind |-> kind, f |-> f, crc_ok |-> crc_ok, reply |-> <<>>]

\* A client of one of the classes that has no socket and no call in
\* progress, facing the device dev, with a datalog ID and a serial of ids.
Fresh(classes, dev, scanning, ids) ==
    /\ cls \in classes
    /\ sock = "None"
    /\ datalog_id \in ids
    /\ inverter_serial \in ids
    /\ pc = "idle"
    /\ start_reg = 0
    /\ count = 0
    /\ is_input = FALSE
    /\ retry_count = 0
    /\ data = <<>>
    /\ packet = <<>>
    /\ outcome = "none"
    /\ values = <<>>
    /\ net = <<>>
    /\ pending = <<>>
    /\ peer = "up"
    /\ sent = 0
    /\ slept = 0
    /\ from = NoFrame
    /\ last_rx = NoRx
    /\ session_src = NoIdent
    /\ all_timeouts = FALSE
    /\ hb_fail = 0
    /\ env_clean = TRUE
    /\ device = dev
    /\ scan_pc = IF scanning THEN "start" ELSE "off"
    /\ scan_reg = 0
    /\ retry = 0
    /\ consecutive_failures = 0
    /\ config_data = <<>>
    /\ result = "none"
    /\ batch_log = <<>>
    /\ prior_sent = 0
    /\ hb_due = FALSE

\* The state after the constructor of a client of one of the classes,
\* facing the device dev.
Boot(classes, dev, scanning) ==
    Fresh(classes, dev, scanning, {Zero10}) /\ call = NoCall

Init == Boot({"Custom", "EG4"}, BaseDevice, FALSE)

(***************************************************************************)
(* The TCP stream.                                                         *)
(***************************************************************************)
\* The undelivered bytes of the entry e of net.
Rest(e) == Slice(e.f.bytes, e.off, Len(e.f.bytes))

\* What one sock.recv may return: the rest of the first frame, that and the
\* next frame in one delivery, or the first frame up to a cut point.  src is
\* the device frame the chunk starts (NoFrame when it starts inside one).
RecvChoices ==
    IF net = <<>> THEN {}
    ELSE LET e   == Head(net)
             src == IF e.off = 0 THEN e.f ELSE NoFrame
             one == { [chunk |-> Rest(e), rest |-> Tail(net), src |-> src,
                       whole |-> e.off = 0, f |-> e.f, off |-> e.off] }
             two == IF Len(net) < 2 THEN {}
                    ELSE { [chunk |-> Rest(e) \o Rest(net[2]),
                            rest |-> Tail(Tail(net)), src |-> src,
                            whole |-> FALSE, f |-> NoFrame, off |-> e.off] }
             cut == { [chunk |-> Slice(e.f.bytes, e.off, c),
                       rest |-> <<[f |-> e.f, off |-> c]>> \o Tail(net),
                       src |-> src, whole |-> FALSE, f |-> NoFrame,
                       off |-> e.off] :
                      c \in { k \in device.cuts :
                                e.off < k /\ k < Len(e.f.bytes) } }
         IN  one \cup two \cup cut

\* The frame a processed buffer is, when it is exactly one device frame.
Aligned(src, buf) == IF src # NoFrame /\ buf = src.bytes THEN src ELSE NoFrame

\* The frame whose bytes from offset 18 to its end the delivery r is: what
\* EG4ModbusClient.read_response takes for the data of a frame whose first
\* 18 bytes it took for the header.
AlignedData(r) == IF r.off = 18 THEN r.f ELSE NoFrame

\* The stream takes one more frame of the device: there are fewer than
\* MaxNet in it, or the client has read a part of the oldest one and TCP
\* delivers the rest of it together with the next.
NetRoom ==
    \/ Len(net) < MaxNet
    \/ device.coalesce /\ Len(net) = MaxNet /\ Head(net).off > 0

\* The device receives a request; beyond MaxPending it loses the oldest.
Received(req) ==
    IF Len(pending) < MaxPending THEN Append(pending, req)
    ELSE Append(Tail(pending), req)

Bump(n) == IF n < SentCap THEN n + 1 ELSE n

(***************************************************************************)
(* The caller and the device.                                              *)
(***************************************************************************)
\* connect(): a new socket is made and connected.  When that fails,
\* CustomModbusClient sets sock to None, and EG4ModbusClient keeps the socket
\* that is not connected.
connect(ok) ==
    IF ok
    THEN /\ sock' = "open"
         /\ net' = <<>> /\ pending' = <<>> /\ peer' = "up"
    ELSE /\ sock' = IF cls = "EG4" THEN "unconnected" ELSE "None"
         /\ UNCHANGED <<net, pending, peer>>

\* A close() that lets what sock.close() raises pass, in both classes.
close_without_try(err) ==
    IF sock = "None" \/ err
    THEN UNCHANGED <<sock, net, pending, peer>>
    ELSE /\ sock' = "None"
         /\ net' = <<>> /\ pending' = <<>> /\ peer' = "up"

\* close(): with a socket, sock.close() and sock = None.  What sock.close()
\* raises (err) CustomModbusClient swallows; EG4ModbusClient lets it pass
\* and keeps the socket.
close(err) ==
    IF sock = "None" \/ (err /\ cls = "EG4")
    THEN UNCHANGED <<sock, net, pending, peer>>
    ELSE /\ sock' = "None"
         /\ net' = <<>> /\ pending' = <<>> /\ peer' = "up"

\* The caller calls connect() on a client that is not connected.
Connect ==
    /\ pc = "idle" /\ sock # "open"
    /\ \E ok \in BOOLEAN : connect(ok)
    /\ UNCHANGED <<cls, datalog_id, inverter_serial, pc, start_reg, count,
                   is_input, retry_count, data, packet, outcome, values>>
    /\ UNCHANGED ghostVars
    /\ UNCHANGED otherVars

\* The caller calls close() on a client that has a socket.
Close ==
    /\ pc = "idle" /\ sock # "None"
    /\ \E err \in BOOLEAN : close(err)
    /\ UNCHANGED <<cls, datalog_id, inverter_serial, pc, start_reg, count,
                   is_input, retry_count, data, packet, outcome, values>>
    /\ UNCHANGED ghostVars
    /\ UNCHANGED otherVars

\* The entry of read_holding_registers / read_registers for the request r.
Enter(r) ==
    /\ start_reg' = r[1] /\ count' = r[2]
    /\ is_input' = (cls = "EG4" /\ r \in InputRequests)
    /\ pc' = "loop"
    /\ retry_count' = 0
    /\ outcome' = "none" /\ values' = <<>>
    /\ sent' = 0 /\ slept' = 0 /\ hb_fail' = 0
    /\ last_rx' = NoRx /\ all_timeouts' = TRUE

\* The caller enters read_holding_registers / read_registers.
Call ==
    /\ pc = "idle"
    /\ \E r \in Requests : Enter(r)
    /\ UNCHANGED <<cls, sock, datalog_id, inverter_serial, data, packet>>
    /\ UNCHANGED <<from, session_src, env_clean>>
    /\ UNCHANGED envVars
    /\ UNCHANGED otherVars

\* The device can act on an open stream.  Between two calls the client does
\* not look at the socket, so what the device does there is taken once the
\* next call has begun: the order makes no difference to either side.
DeviceUp == sock = "open" /\ peer = "up" /\ pc # "idle"

\* The device answers the oldest request it holds.
DeviceAnswer ==
    /\ DeviceUp /\ pending # <<>> /\ NetRoom
    /\ \E f \in ResponseTo(Head(pending)) :
          /\ net' = Append(net, [f |-> f, off |-> 0])
          /\ env_clean' = (env_clean /\ f.ok /\ f.err = 0)
    /\ pending' = Tail(pending)
    /\ UNCHANGED <<peer, clientVars>>
    /\ UNCHANGED <<sent, slept, from, last_rx, session_src,
                   all_timeouts, hb_fail>>
    /\ UNCHANGED otherVars

\* The device emits a heartbeat.
DeviceBeat ==
    /\ DeviceUp /\ NetRoom
    /\ \E f \in HeartbeatFrames :
          /\ f.D \in device.beats
          /\ net' = Append(net, [f |-> f, off |-> 0])
    /\ UNCHANGED <<pending, peer, clientVars, ghostVars>>
    /\ UNCHANGED otherVars

\* The device closes the connection.
DeviceClose ==
    /\ DeviceUp
    /\ peer' = "closed"
    /\ pending' = <<>>
    /\ env_clean' = FALSE
    /\ UNCHANGED <<net, clientVars>>
    /\ UNCHANGED <<sent, slept, from, last_rx, session_src,
                   all_timeouts, hb_fail>>
    /\ UNCHANGED otherVars

(***************************************************************************)
(* CustomModbusClient.                                                     *)
(***************************************************************************)
\* read_response from the split into header, data section and CRC on: the
\* CRC comparison (a mismatch is only logged), then the session fields the
\* client holds afterwards, whether an exception left the function, and the
\* data section it returns otherwise.
Custom_parse(d, cur_dl, cur_serial) ==
    LET header       == Slice(d, 0, 19)
        data_section == Slice(d, 19, Len(d) - 2)
        received_crc == Slice(d, Len(d) - 2, Len(d))
        new_dl       == Slice(header, 8, 18)
        new_serial   == Slice(data_section, 3, 13)
        crc_ok       == received_crc = calculate_crc16(data_section)
    IN  IF ~decodes(cur_dl) \/ ~decodes(new_dl)
        THEN [raised |-> TRUE, dl |-> cur_dl, ser |-> cur_serial,
              response |-> <<>>, crc_ok |-> crc_ok]
        ELSE IF cur_serial # new_serial
                /\ (~decodes(cur_serial) \/ ~decodes(new_serial))
        THEN [raised |-> TRUE, dl |-> new_dl, ser |-> cur_serial,
              response |-> <<>>, crc_ok |-> crc_ok]
        ELSE [raised |-> FALSE, dl |-> new_dl, ser |-> new_serial,
              response |-> data_section, crc_ok |-> crc_ok]

\* An except block that allows one attempt more than max_retries.
Custom_except_one_more(reconnect_ok) ==
    /\ retry_count' = retry_count + 1
    /\ IF retry_count + 1 < max_retries + 1
       THEN /\ slept' = slept + delay_ms
            /\ pc' = "loop"
            /\ outcome' = "none"
            /\ sock' = IF sock = "None" /\ reconnect_ok THEN "open" ELSE sock
       ELSE /\ pc' = "idle"
            /\ outcome' = "raised"
            /\ UNCHANGED <<slept, sock>>
    /\ data' = <<>> /\ packet' = <<>> /\ values' = <<>> /\ from' = NoFrame

\* An except block that sleeps after the last attempt too.
Custom_except_sleeps_last(reconnect_ok) ==
    /\ retry_count' = retry_count + 1
    /\ slept' = slept + delay_ms
    /\ IF retry_count + 1 < max_retries
       THEN /\ pc' = "loop"
            /\ outcome' = "none"
            /\ sock' = IF sock = "None" /\ reconnect_ok THEN "open" ELSE sock
       ELSE /\ pc' = "idle"
            /\ outcome' = "raised"
            /\ UNCHANGED sock
    /\ data' = <<>> /\ packet' = <<>> /\ values' = <<>> /\ from' = NoFrame

\* The except block of read_holding_registers: count the attempt; below
\* max_retries sleep delay_ms and, without a socket, connect() again (its
\* result is not looked at); at max_retries raise.
Custom_except(reconnect_ok) ==
    /\ retry_count' = retry_count + 1
    /\ IF retry_count + 1 < max_retries
       THEN /\ slept' = slept + delay_ms
            /\ pc' = "loop"
            /\ outcome' = "none"
            /\ sock' = IF sock = "None" /\ reconnect_ok THEN "open" ELSE sock
       ELSE /\ pc' = "idle"
            /\ outcome' = "raised"
            /\ UNCHANGED <<slept, sock>>
    /\ data' = <<>> /\ packet' = <<>> /\ values' = <<>> /\ from' = NoFrame

\* The end of the try block: sleep delay_ms and return the values.
Custom_return(vals) ==
    /\ pc' = "idle"
    /\ outcome' = "values"
    /\ values' = vals
    /\ slept' = slept + delay_ms
    /\ data' = <<>> /\ packet' = <<>> /\ from' = NoFrame
    /\ UNCHANGED <<retry_count, sock>>

\* build_packet and sendall succeed; read_response starts.
Custom_Send ==
    /\ cls = "Custom" /\ pc = "loop" /\ sock = "open"
    /\ packet' = Custom_build_packet(datalog_id, inverter_serial,
                                     start_reg, count)
    /\ pending' = IF peer = "up" THEN Received(<<start_reg, count>>)
                  ELSE pending
    /\ env_clean' = (env_clean /\ Len(pending) < MaxPending)
    /\ sent' = Bump(sent)
    /\ pc' = "recv"
    /\ data' = <<>> /\ from' = NoFrame
    /\ UNCHANGED <<cls, sock, datalog_id, inverter_serial, start_reg, count,
                   is_input, retry_count, outcome, values>>
    /\ UNCHANGED <<net, peer, slept, last_rx, session_src,
                   all_timeouts, hb_fail>>
    /\ UNCHANGED otherVars

\* sendall raises: there is no socket, or the peer has closed the stream.
Custom_SendFail ==
    /\ cls = "Custom" /\ pc = "loop"
    /\ sock = "None" \/ peer = "closed"
    /\ \E ok \in BOOLEAN : Custom_except(ok)
    /\ IF sock' # sock
       THEN net' = <<>> /\ pending' = <<>> /\ peer' = "up"
       ELSE UNCHANGED <<net, pending, peer>>
    /\ last_rx' = Rx("error", NoFrame, FALSE)
    /\ all_timeouts' = FALSE
    /\ UNCHANGED <<cls, datalog_id, inverter_serial, start_reg, count,
                   is_input>>
    /\ UNCHANGED <<sent, session_src, hb_fail, env_clean>>
    /\ UNCHANGED otherVars

\* read_response returns None for a heartbeat; the loop continues.
Custom_heartbeat(f) ==
    /\ pc' = "loop"
    /\ data' = <<>> /\ packet' = <<>> /\ from' = NoFrame
    /\ last_rx' = Rx("heartbeat", f, FALSE)
    /\ all_timeouts' = FALSE
    /\ UNCHANGED <<sock, datalog_id, inverter_serial, retry_count, outcome,
                   values, slept, session_src, hb_fail>>

\* read_response has 21 bytes or more: it parses them, and
\* read_holding_registers decodes what it returns.
Custom_response(d, f) ==
    \E p \in {Custom_parse(d, datalog_id, inverter_serial)} :
        /\ datalog_id' = p.dl
        /\ inverter_serial' = p.ser
        /\ last_rx' = Rx("data", f, p.crc_ok)
        /\ session_src' = IF ~p.raised THEN Ident(f)
                          ELSE IF p.dl = datalog_id THEN session_src
                          ELSE NoIdent
        /\ all_timeouts' = FALSE
        /\ UNCHANGED hb_fail
        /\ IF p.raised \/ Len(p.response) < 2
           THEN Custom_except(FALSE)
           ELSE Custom_return(extract_values(p.response))

\* One sock.recv(1024) of read_response returns bytes.
Custom_Recv ==
    /\ cls = "Custom" /\ pc = "recv"
    /\ \E r \in RecvChoices :
          LET d   == data \o r.chunk
              src == IF data = <<>> THEN r.src ELSE from
          IN  /\ net' = r.rest
              /\ env_clean' = (env_clean /\ r.whole)
              /\ IF Len(d) >= min_header_len
                    /\ Slice(d, 0, 4) = <<161, 26, 2, 0>>
                 THEN Custom_heartbeat(Aligned(src, d))
                 ELSE IF Len(d) >= min_packet_len
                 THEN Custom_response(d, Aligned(src, d))
                 ELSE /\ data' = d /\ from' = src
                      /\ UNCHANGED <<sock, datalog_id, inverter_serial, pc,
                                     retry_count, packet, outcome, values,
                                     slept, last_rx, session_src,
                                     all_timeouts, hb_fail>>
    /\ UNCHANGED <<cls, start_reg, count, is_input, pending, peer,
                   sent>>
    /\ UNCHANGED otherVars

\* sock.recv raises socket.timeout: nothing arrived within the timeout.
Custom_RecvTimeout ==
    /\ cls = "Custom" /\ pc = "recv"
    /\ net = <<>> /\ peer = "up"
    /\ Custom_except(FALSE)
    /\ last_rx' = Rx("timeout", NoFrame, FALSE)
    /\ env_clean' = FALSE
    /\ UNCHANGED <<cls, datalog_id, inverter_serial, start_reg, count,
                   is_input>>
    /\ UNCHANGED <<envVars, sent, session_src, all_timeouts, hb_fail>>
    /\ UNCHANGED otherVars

\* sock.recv returns b'': the peer closed; "No data received" or "Response
\* too short" is raised.
Custom_RecvClosed ==
    /\ cls = "Custom" /\ pc = "recv"
    /\ net = <<>> /\ peer = "closed"
    /\ Custom_except(FALSE)
    /\ last_rx' = Rx("closed", NoFrame, FALSE)
    /\ all_timeouts' = FALSE
    /\ UNCHANGED <<cls, datalog_id, inverter_serial, start_reg, count,
                   is_input>>
    /\ UNCHANGED <<envVars, sent, session_src, hb_fail, env_clean>>
    /\ UNCHANGED otherVars

(***************************************************************************)
(* EG4ModbusClient.                                                        *)
(***************************************************************************)
\* read_registers after read_response returned None, and its except
\* blocks: count the attempt; below max_retries sleep one second and loop;
\* at max_retries the loop ends and the function returns None.
EG4_fail ==
    /\ retry_count' = retry_count + 1
    /\ IF retry_count + 1 < max_retries
       THEN /\ slept' = slept + eg4_retry_sleep_ms
            /\ pc' = "loop"
            /\ outcome' = "none"
       ELSE /\ pc' = "idle"
            /\ outcome' = "None"
            /\ UNCHANGED slept
    /\ data' = <<>> /\ packet' = <<>> /\ values' = <<>> /\ from' = NoFrame
    /\ UNCHANGED <<sock, datalog_id, inverter_serial>>

\* The end of the try block: sleep delay_ms and return the values.
EG4_return(vals) ==
    /\ pc' = "idle"
    /\ outcome' = "values"
    /\ values' = vals
    /\ slept' = slept + delay_ms
    /\ data' = <<>> /\ packet' = <<>> /\ from' = NoFrame
    /\ UNCHANGED <<retry_count, sock, datalog_id, inverter_serial>>

\* build_packet and sendall succeed; read_response starts.
EG4_Send ==
    /\ cls = "EG4" /\ pc = "loop" /\ sock = "open"
    /\ packet' = EG4_build_packet(datalog_id, inverter_serial, start_reg,
                                  count, is_input)
    /\ pending' = IF peer = "up" THEN Received(<<start_reg, count>>)
                  ELSE pending
    /\ env_clean' = (env_clean /\ Len(pending) < MaxPending)
    /\ sent' = Bump(sent)
    /\ pc' = "recv1"
    /\ data' = <<>> /\ from' = NoFrame
    /\ UNCHANGED <<cls, sock, datalog_id, inverter_serial, start_reg, count,
                   is_input, retry_count, outcome, values>>
    /\ UNCHANGED <<net, peer, slept, last_rx, session_src,
                   all_timeouts, hb_fail>>
    /\ UNCHANGED otherVars

\* sendall raises: there is no socket, or the peer has closed the stream.
EG4_SendFail ==
    /\ cls = "EG4" /\ pc = "loop"
    /\ sock # "open" \/ peer = "closed"
    /\ EG4_fail
    /\ last_rx' = Rx("error", NoFrame, FALSE)
    /\ all_timeouts' = FALSE
    /\ UNCHANGED <<cls, start_reg, count, is_input>>
    /\ UNCHANGED <<envVars, sent, session_src, hb_fail, env_clean>>
    /\ UNCHANGED otherVars

\* What read_response sends when header is a heartbeat: the log line's
\* datalog_id.decode() comes first, and when it raises the function returns
\* None through its except block and nothing is sent.
EG4_heartbeat_reply(header) ==
    IF decodes(Slice(header, 8, 18))
    THEN EG4_heartbeat_response(Slice(header, 8, 18))
    ELSE <<>>

\* read_response once the magic bytes were found in header: the function
\* byte decides.  A heartbeat is answered and None is returned, which
\* read_registers counts as a failed attempt; a frame length of 8 or less
\* returns None; otherwise the data section is awaited.
EG4_header(header, f) ==
    IF Len(header) < 8
    THEN /\ EG4_fail
         /\ last_rx' = Rx("error", f, FALSE)
         /\ UNCHANGED hb_fail
    ELSE IF header[8] = 193
    THEN /\ EG4_fail
         /\ last_rx' = [Rx("heartbeat", f, FALSE)
                          EXCEPT !.reply = EG4_heartbeat_reply(header)]
         /\ hb_fail' = hb_fail + 1
    ELSE IF from_bytes_le(Slice(header, 4, 6)) - 8 > 0
    THEN /\ pc' = "recv3"
         /\ data' = header /\ from' = f
         /\ UNCHANGED <<sock, datalog_id, inverter_serial, retry_count,
                        packet, outcome, values, slept, last_rx, hb_fail>>
    ELSE /\ EG4_fail
         /\ last_rx' = Rx("error", f, FALSE)
         /\ UNCHANGED hb_fail

\* The first sock.recv of read_response returns bytes.
EG4_Recv1 ==
    /\ cls = "EG4" /\ pc = "recv1"
    /\ \E r \in RecvChoices :
          /\ net' = r.rest
          /\ env_clean' = (env_clean /\ r.whole)
          /\ IF find_magic(r.chunk) = -1
             THEN /\ pc' = "recv2"
                  /\ data' = r.chunk /\ from' = NoFrame
                  /\ UNCHANGED <<sock, datalog_id, inverter_serial,
                                 retry_count, packet, outcome, values, slept,
                                 last_rx, hb_fail>>
             ELSE EG4_header(r.chunk, Aligned(r.src, r.chunk))
    /\ all_timeouts' = FALSE
    /\ UNCHANGED <<cls, start_reg, count, is_input, pending, peer,
                   sent, session_src>>
    /\ UNCHANGED otherVars

\* The magic bytes were not in the first chunk: one more sock.recv.
EG4_Recv2 ==
    /\ cls = "EG4" /\ pc = "recv2"
    /\ \E r \in RecvChoices :
          LET header == data \o r.chunk
              pos    == find_magic(header)
          IN  /\ net' = r.rest
              /\ env_clean' = (env_clean /\ r.whole)
              /\ IF pos = -1
                 THEN /\ EG4_fail
                      /\ last_rx' = Rx("error", NoFrame, FALSE)
                      /\ UNCHANGED hb_fail
                 ELSE EG4_header(Slice(header, pos, Len(header)), NoFrame)
    /\ all_timeouts' = FALSE
    /\ UNCHANGED <<cls, start_reg, count, is_input, pending, peer,
                   sent, session_src>>
    /\ UNCHANGED otherVars

\* The sock.recv for the data section returns bytes: read_response returns
\* them and read_registers decodes them.
EG4_Recv3 ==
    /\ cls = "EG4" /\ pc = "recv3"
    /\ \E r \in RecvChoices :
          /\ net' = r.rest
          /\ env_clean' = (env_clean /\ r.whole)
          /\ last_rx' = Rx("data", AlignedData(r), FALSE)
          /\ IF Len(r.chunk) < 2
             THEN EG4_fail
             ELSE EG4_return(extract_values(r.chunk))
    /\ all_timeouts' = FALSE
    /\ UNCHANGED <<cls, start_reg, count, is_input, pending, peer,
                   sent, session_src, hb_fail>>
    /\ UNCHANGED otherVars

\* A sock.recv of read_response raises socket.timeout: it returns None.
EG4_RecvTimeout ==
    /\ cls = "EG4" /\ pc \in {"recv1", "recv2", "recv3"}
    /\ net = <<>> /\ peer = "up"
    /\ EG4_fail
    /\ last_rx' = Rx("timeout", NoFrame, FALSE)
    /\ all_timeouts' = (all_timeouts /\ pc = "recv1")
    /\ env_clean' = FALSE
    /\ UNCHANGED <<cls, start_reg, count, is_input>>
    /\ UNCHANGED <<envVars, sent, session_src, hb_fail>>
    /\ UNCHANGED otherVars

\* A sock.recv of read_response returns b'': it returns None.
EG4_RecvClosed ==
    /\ cls = "EG4" /\ pc \in {"recv1", "recv2", "recv3"}
    /\ net = <<>> /\ peer = "closed"
    /\ EG4_fail
    /\ last_rx' = Rx("closed", NoFrame, FALSE)
    /\ all_timeouts' = FALSE
    /\ UNCHANGED <<cls, start_reg, count, is_input>>
    /\ UNCHANGED <<envVars, sent, session_src, hb_fail, env_clean>>
    /\ UNCHANGED otherVars

(***************************************************************************)
(* try_connect_and_read of backup_inverter_config.py.                      *)
(***************************************************************************)
RECURSIVE Or(_, _)
\* a | b on non-negative integers, bit by bit from the lowest.
Or(a, b) ==
    IF a = 0 THEN b
    ELSE IF b = 0 THEN a
    ELSE (IF a % 2 = 1 \/ b % 2 = 1 THEN 1 ELSE 0)
           + 2 * Or(a \div 2, b \div 2)

\* What the processing of a response stores in config_data: it takes the
\* values in pairs, pair j for register start + j with the value
\* response[i] | (response[i+1] << 8) for i = 2j, and stores the registers
\* the schema defines; of the initial answer it takes the pairs below limit
\* only.
Stored(start, vals, limit) ==
    [reg \in { start + j : j \in 0..(Min(Len(vals) \div 2, limit) - 1) }
                \cap hold_registers |->
        Or(vals[2 * (reg - start) + 1], vals[2 * (reg - start) + 2] * 256)]

\* config_data after the entries of new were assigned to it.
Merge(cfg, new) ==
    IF DOMAIN new = {} THEN cfg
    ELSE [reg \in DOMAIN cfg \cup DOMAIN new |->
             IF reg \in DOMAIN new THEN new[reg] ELSE cfg[reg]]

\* response[i+1] raises IndexError: the number of values is odd, and the
\* loop reaches the last of them.
pair_raises(vals, limit) ==
    Len(vals) % 2 = 1 /\ (Len(vals) - 1) \div 2 < limit

\* The finally block: client.close().
Scan_close == \E err \in BOOLEAN : close(err)

\* return None through the except block, or after a failed connect.
Scan_return_None ==
    /\ scan_pc' = "done"
    /\ result' = "None"
    /\ Scan_close
    /\ UNCHANGED <<pc, start_reg, count, is_input, retry_count, outcome,
                   values, sent, slept, hb_fail, last_rx, all_timeouts>>

\* A scan that returns None at its end, whatever it has decoded.
Scan_finish_discards(cfg) ==
    /\ scan_pc' = "done"
    /\ result' = "None"
    /\ Scan_close
    /\ UNCHANGED <<pc, start_reg, count, is_input, retry_count, outcome,
                   values, sent, slept, hb_fail, last_rx, all_timeouts>>

\* The end of the scan: config_data is returned when it has an entry,
\* None otherwise.
Scan_finish(cfg) ==
    /\ scan_pc' = "done"
    /\ result' = IF DOMAIN cfg # {} THEN "config" ELSE "None"
    /\ Scan_close
    /\ UNCHANGED <<pc, start_reg, count, is_input, retry_count, outcome,
                   values, sent, slept, hb_fail, last_rx, all_timeouts>>

\* One pass of the retry loop begins: check_and_send_heartbeat sends a
\* heartbeat when 30 seconds have passed since the last one, and
\* read_holding_registers is entered for the batch at reg.
Scan_read(reg, due) ==
    /\ scan_pc' = "batch"
    /\ scan_reg' = reg
    /\ \E elapsed \in BOOLEAN : hb_due' = (due /\ ~elapsed)
    /\ Enter(<<reg, batch_count(reg)>>)
    /\ UNCHANGED <<sock, envVars, result>>

\* The except block of a pass finds the client without a socket and calls
\* connect(): the next pass reads the batch again when it succeeds, and
\* "Failed to reconnect" is raised when it fails, which ends the function
\* with None.
Scan_reconnect(reg, due) ==
    \E ok \in BOOLEAN :
       IF ok
       THEN /\ connect(TRUE)
            /\ scan_pc' = "batch"
            /\ scan_reg' = reg
            /\ \E elapsed \in BOOLEAN : hb_due' = (due /\ ~elapsed)
            /\ Enter(<<reg, batch_count(reg)>>)
            /\ UNCHANGED result
       ELSE /\ Scan_return_None
            /\ UNCHANGED <<scan_reg, hb_due>>

\* The scan goes on after the batch at scan_reg: to the next batch, or to
\* the end when there is none.
Scan_next(cfg, due) ==
    IF scan_reg + batch_step < ScanEnd
    THEN /\ Scan_read(scan_reg + batch_step, due)
         /\ retry' = 0 /\ prior_sent' = 0
    ELSE /\ Scan_finish(cfg)
         /\ UNCHANGED <<scan_reg, retry, prior_sent>>
         /\ hb_due' = due

\* try_connect_and_read begins: connect(), then the initial read of
\* register 0; without a connection it returns None.
Scan_Connect ==
    /\ scan_pc = "start"
    /\ \E ok \in BOOLEAN :
          IF ok
          THEN /\ sock' = "open"
               /\ net' = <<>> /\ pending' = <<>> /\ peer' = "up"
               /\ Enter(<<0, 1>>)
               /\ scan_pc' = "initial"
               /\ UNCHANGED result
          ELSE Scan_return_None
    /\ UNCHANGED <<cls, datalog_id, inverter_serial, data, packet>>
    /\ UNCHANGED <<from, session_src, env_clean, device, call>>
    /\ UNCHANGED <<scan_reg, retry, consecutive_failures, config_data,
                   batch_log, prior_sent, hb_due>>

\* The initial read has ended.  When it raised, or the processing of its
\* values raises, None is returned; otherwise the values are stored, a
\* heartbeat is sent and the first batch is read.
Scan_Initial ==
    /\ scan_pc = "initial" /\ pc = "idle"
    /\ IF outcome = "raised" \/ pair_raises(values, initial_limit)
       THEN /\ Scan_return_None
            /\ UNCHANGED <<scan_reg, retry, consecutive_failures,
                           config_data, batch_log, prior_sent, hb_due>>
       ELSE /\ config_data' = Merge(<<>>, Stored(0, values, initial_limit))
            /\ Scan_read(first_batch, FALSE)
            /\ retry' = 0 /\ prior_sent' = 0
            /\ consecutive_failures' = 0
            /\ UNCHANGED batch_log
    /\ UNCHANGED <<cls, datalog_id, inverter_serial, data, packet>>
    /\ UNCHANGED <<from, session_src, env_clean, device, call>>

\* A scan that sends no heartbeat after a batch it has read.
Scan_Batch_no_heartbeat ==
    /\ scan_pc = "batch" /\ pc = "idle"
    /\ LET cfg == Merge(config_data,
                        IF outcome = "values"
                        THEN Stored(scan_reg, values, Len(values))
                        ELSE <<>>)
       IN  /\ config_data' = cfg
           /\ IF outcome = "values" /\ ~pair_raises(values, Len(values))
              THEN /\ consecutive_failures' = 0
                   /\ batch_log' = Append(batch_log, TRUE)
                   /\ Scan_next(cfg, TRUE)
              ELSE IF retry < batch_max_retries - 1
              THEN /\ retry' = retry + 1
                   /\ prior_sent' = Min(prior_sent + sent, SentCap)
                   /\ IF sock = "None"
                      THEN Scan_reconnect(scan_reg, hb_due)
                      ELSE Scan_read(scan_reg, hb_due)
                   /\ UNCHANGED <<consecutive_failures, batch_log>>
              ELSE /\ consecutive_failures' = consecutive_failures + 1
                   /\ batch_log' = Append(batch_log, FALSE)
                   /\ IF consecutive_failures + 1 >= max_consecutive_failures
                      THEN /\ Scan_finish(cfg)
                           /\ UNCHANGED <<scan_reg, retry, prior_sent,
                                          hb_due>>
                      ELSE Scan_next(cfg, hb_due)
    /\ UNCHANGED <<cls, datalog_id, inverter_serial, data, packet>>
    /\ UNCHANGED <<from, session_src, env_clean, device, call>>

\* A scan that keeps consecutive_failures when a batch succeeds.
Scan_Batch_no_reset ==
    /\ scan_pc = "batch" /\ pc = "idle"
    /\ LET cfg == Merge(config_data,
                        IF outcome = "values"
                        THEN Stored(scan_reg, values, Len(values))
                        ELSE <<>>)
       IN  /\ config_data' = cfg
           /\ IF outcome = "values" /\ ~pair_raises(values, Len(values))
              THEN /\ UNCHANGED consecutive_failures
                   /\ batch_log' = Append(batch_log, TRUE)
                   /\ Scan_next(cfg, FALSE)
              ELSE IF retry < batch_max_retries - 1
              THEN /\ retry' = retry + 1
                   /\ prior_sent' = Min(prior_sent + sent, SentCap)
                   /\ IF sock = "None"
                      THEN Scan_reconnect(scan_reg, hb_due)
                      ELSE Scan_read(scan_reg, hb_due)
                   /\ UNCHANGED <<consecutive_failures, batch_log>>
              ELSE /\ consecutive_failures' = consecutive_failures + 1
                   /\ batch_log' = Append(batch_log, FALSE)
                   /\ IF consecutive_failures + 1 >= max_consecutive_failures
                      THEN /\ Scan_finish(cfg)
                           /\ UNCHANGED <<scan_reg, retry, prior_sent,
                                          hb_due>>
                      ELSE Scan_next(cfg, hb_due)
    /\ UNCHANGED <<cls, datalog_id, inverter_serial, data, packet>>
    /\ UNCHANGED <<from, session_src, env_clean, device, call>>

\* A read of the batch at scan_reg has ended.  Its values are processed in
\* pairs; when that succeeds the batch is done, consecutive_failures is
\* reset and a heartbeat is sent.  When the read or the processing raised,
\* the batch is read again after retry_delay, up to batch_max_retries
\* times; then consecutive_failures is counted up, and at
\* max_consecutive_failures the scan stops.
Scan_Batch ==
    /\ scan_pc = "batch" /\ pc = "idle"
    /\ LET cfg == Merge(config_data,
                        IF outcome = "values"
                        THEN Stored(scan_reg, values, Len(values))
                        ELSE <<>>)
       IN  /\ config_data' = cfg
           /\ IF outcome = "values" /\ ~pair_raises(values, Len(values))
              THEN /\ consecutive_failures' = 0
                   /\ batch_log' = Append(batch_log, TRUE)
                   /\ Scan_next(cfg, FALSE)
              ELSE IF retry < batch_max_retries - 1
              THEN /\ retry' = retry + 1
                   /\ prior_sent' = Min(prior_sent + sent, SentCap)
                   /\ IF sock = "None"
                      THEN Scan_reconnect(scan_reg, hb_due)
                      ELSE Scan_read(scan_reg, hb_due)
                   /\ UNCHANGED <<consecutive_failures, batch_log>>
              ELSE /\ consecutive_failures' = consecutive_failures + 1
                   /\ batch_log' = Append(batch_log, FALSE)
                   /\ IF consecutive_failures + 1 >= max_consecutive_failures
                      THEN /\ Scan_finish(cfg)
                           /\ UNCHANGED <<scan_reg, retry, prior_sent,
                                          hb_due>>
                      ELSE Scan_next(cfg, hb_due)
    /\ UNCHANGED <<cls, datalog_id, inverter_serial, data, packet>>
    /\ UNCHANGED <<from, session_src, env_clean, device, call>>

\* CustomModbusClient.try_connect_and_read(register_address, count)
\* begins: without a connection it returns None, with one it enters
\* read_holding_registers.
Method_Connect ==
    /\ scan_pc = "start"
    /\ \E ok \in BOOLEAN :
          /\ connect(ok)
          /\ IF ok
             THEN /\ Enter(<<0, 1>>)
                  /\ scan_pc' = "method"
                  /\ UNCHANGED result
             ELSE /\ scan_pc' = "done"
                  /\ result' = "None"
                  /\ UNCHANGED <<pc, start_reg, count, is_input, retry_count,
                                 outcome, values, sent, slept, hb_fail,
                                 last_rx, all_timeouts>>
    /\ UNCHANGED <<cls, datalog_id, inverter_serial, data, packet>>
    /\ UNCHANGED <<from, session_src, env_clean, device, call>>
    /\ UNCHANGED <<scan_reg, retry, consecutive_failures, config_data,
                   batch_log, prior_sent, hb_due>>

\* read_holding_registers has returned the values or raised: the finally
\* block closes the client, and the values are returned or the exception
\* goes on to the caller.
Method_Return ==
    /\ scan_pc = "method" /\ pc = "idle"
    /\ scan_pc' = "done"
    /\ result' = IF outcome = "values" THEN "values" ELSE "raised"
    /\ Scan_close
    /\ UNCHANGED <<pc, start_reg, count, is_input, retry_count, outcome,
                   values, sent, slept, hb_fail, last_rx, all_timeouts>>
    /\ UNCHANGED <<cls, datalog_id, inverter_serial, data, packet>>
    /\ UNCHANGED <<from, session_src, env_clean, device, call>>
    /\ UNCHANGED <<scan_reg, retry, consecutive_failures, config_data,
                   batch_log, prior_sent, hb_due>>

(***************************************************************************)
(* Functions and methods called on their own.                              *)
(***************************************************************************)
\* The call changes no field of the client, the stream or the scan.
Only_call == UNCHANGED <<clientVars, envVars, ghostVars, device, scanVars>>

\* The bytes of the sequences calculate_crc16 is called on, and the ASCII
\* digits "123456789", the check input of the CRC catalogues.
ByteSample == {0, 1, 128, 161, 255}
Check9 == <<49, 50, 51, 52, 53, 54, 55, 56, 57>>
Messages ==
    UNION { [1..n -> ByteSample] : n \in 0..MaxLen } \cup {Check9}

\* calculate_crc16(data) returns.
Call_calculate_crc16 ==
    /\ call.fn = "calculate_crc16" /\ ~call.returned
    /\ call' = Called(call.fn, call.arg, calculate_crc16(call.arg))
    /\ Only_call

\* The register addresses and counts build_packet is called with: inside
\* 0..65535, at its ends, and outside it.
Addresses == {-1, 0, 1, 255, 256, 4660, 65535, 65536, 65537, 70000}
Counts == {-1, 0, 1, 40, 65535, 65538}

\* CustomModbusClient.build_packet(register_address, count) returns.
Custom_Call_build_packet ==
    /\ cls = "Custom"
    /\ call.fn = "build_packet" /\ ~call.returned
    /\ call' = Called(call.fn, call.arg,
                      Custom_build_packet(datalog_id, inverter_serial,
                                          call.arg[1], call.arg[2]))
    /\ Only_call

\* EG4ModbusClient.build_packet(register_address, count, is_input)
\* returns.
EG4_Call_build_packet ==
    /\ cls = "EG4"
    /\ call.fn = "build_packet" /\ ~call.returned
    /\ call' = Called(call.fn, call.arg,
                      EG4_build_packet(datalog_id, inverter_serial,
                                       call.arg[1], call.arg[2], call.arg[3]))
    /\ Only_call

\* The calls made on a client of class c: calculate_crc16 on a byte
\* sequence, build_packet on an address and a count (and is_input, which
\* CustomModbusClient.build_packet does not have).
CodecCalls(c) ==
    { Asked("calculate_crc16", m) : m \in Messages }
    \cup { Asked("build_packet", <<a, n, inp>>) :
             a \in Addresses, n \in Counts,
             inp \in IF c = "EG4" THEN BOOLEAN ELSE {FALSE} }

(***************************************************************************)
(* The methods of a client, called by its user one after the other.        *)
(***************************************************************************)
\* The request the user reads with.
ApiRequests == { <<0, 1>> }

\* The method leaves the fields of the client other than sock alone.
Api_rest ==
    /\ UNCHANGED <<cls, datalog_id, inverter_serial, pc, start_reg, count,
                   is_input, retry_count, data, packet, outcome, values>>
    /\ UNCHANGED <<ghostVars, device, scanVars>>

\* A connect() that resets the session fields.
Call_connect_resets_session ==
    /\ pc = "idle" /\ sock # "open"
    /\ \E ok \in BOOLEAN :
          /\ connect(ok)
          /\ call' = Called("connect", <<>>, <<ok>>)
    /\ datalog_id' = Zero10 /\ inverter_serial' = Zero10
    /\ UNCHANGED <<cls, pc, start_reg, count, is_input, retry_count, data,
                   packet, outcome, values>>
    /\ UNCHANGED <<ghostVars, device, scanVars>>

\* The user calls connect() on a client that is not connected.
Call_connect ==
    /\ pc = "idle" /\ sock # "open"
    /\ \E ok \in BOOLEAN :
          /\ connect(ok)
          /\ call' = Called("connect", <<>>, <<ok>>)
    /\ Api_rest

\* The user calls close(), with or without a socket; the call is the first
\* close() or one that follows another.
Call_close ==
    /\ pc = "idle"
    /\ \E err \in BOOLEAN :
          /\ close(err)
          /\ call' = Called("close", <<IF call.fn = "close" THEN 2 ELSE 1>>,
                            IF err /\ cls = "EG4" /\ sock # "None"
                            THEN <<"raised">> ELSE <<>>)
    /\ Api_rest

\* The user calls read_holding_registers / read_registers.
Call_read ==
    /\ pc = "idle"
    /\ \E r \in ApiRequests : Enter(r) /\ call' = Called("read", r, <<>>)
    /\ UNCHANGED <<cls, sock, datalog_id, inverter_serial, data, packet>>
    /\ UNCHANGED <<from, session_src, env_clean>>
    /\ UNCHANGED <<envVars, device, scanVars>>

\* The user calls build_heartbeat_packet(): it raises when the log line's
\* self.datalog_id.decode() does, and returns the packet otherwise.
Call_build_heartbeat_packet ==
    /\ cls = "Custom" /\ pc = "idle"
    /\ call' = Called("build_heartbeat_packet", <<>>,
                      IF decodes(datalog_id)
                      THEN Custom_build_heartbeat_packet(datalog_id)
                      ELSE <<"raised">>)
    /\ UNCHANGED sock
    /\ UNCHANGED envVars
    /\ Api_rest

\* The user calls send_heartbeat(): True when the packet was built and
\* sendall did not raise, False otherwise.
Call_send_heartbeat ==
    /\ cls = "Custom" /\ pc = "idle"
    /\ \E ok \in IF ~decodes(datalog_id) \/ sock # "open" THEN {FALSE}
                  ELSE IF peer = "up" THEN {TRUE} ELSE BOOLEAN :
          call' = Called("send_heartbeat", <<>>, <<ok>>)
    /\ UNCHANGED sock
    /\ UNCHANGED envVars
    /\ Api_rest

(***************************************************************************)
(* eg4_registers.py: the register schema and the decoding of a datalog     *)
(* entry.  A Python string that is built or parsed is a sequence of        *)
(* characters.                                                             *)
(***************************************************************************)
Str_hold == <<"h", "o", "l", "d">>
Str_input == <<"i", "n", "p", "u", "t">>
Str_unknown == <<"_", "u", "n", "k", "n", "o", "w", "n", "_">>
Digits ==
    <<"0", "1", "2", "3", "4", "5", "6", "7", "8", "9",
      "a", "b", "c", "d", "e", "f">>
digit_value(c) == CHOOSE i \in 0..15 : Digits[i + 1] = c

RECURSIVE int_base(_, _)
\* int(s, base) of a string of digits.
int_base(str, base) ==
    IF str = <<>> THEN 0
    ELSE int_base(SubSeq(str, 1, Len(str) - 1), base) * base
           + digit_value(str[Len(str)])

RECURSIVE str_int(_)
\* The decimal digits an f-string writes for a non-negative int.
str_int(n) ==
    IF n < 10 THEN <<Digits[n + 1]>>
    ELSE str_int(n \div 10) \o <<Digits[(n % 10) + 1]>>

\* Register(number, name, ..., data_type, ..., scaling, ...); the scaling
\* is counted in tenths.
Register(number, name, data_type, scaling) ==
    [number |-> number, name |-> name, data_type |-> data_type,
     scaling |-> scaling]

\* Register.decode_value: int(hex_value, 16), times the scaling for a
\* float register (the product is in tenths).
decode_value(reg, hex_value) ==
    IF reg.data_type = "float"
    THEN <<"float", int_base(hex_value, 16) * reg.scaling>>
    ELSE <<"int", int_base(hex_value, 16)>>

\* RegisterMap.__init__: {reg.number: reg for reg in registers}; of two
\* registers with one number the later one stays.
RegisterMap(registers) ==
    [n \in { registers[i].number : i \in DOMAIN registers } |->
        registers[CHOOSE i \in DOMAIN registers :
                     /\ registers[i].number = n
                     /\ \A j \in DOMAIN registers :
                           registers[j].number = n => j <= i]]

\* RegisterMap.get_register: the register, or nothing for None.
get_register(map, number) ==
    IF number \in DOMAIN map THEN <<map[number]>> ELSE <<>>

\* decoded[key] = value.
Put(decoded, key, value) ==
    [k \in DOMAIN decoded \cup {key} |->
        IF k = key THEN value ELSE decoded[k]]

RECURSIVE decode_items(_, _, _, _, _)
\* The loop of decode_registers over the first n items of raw_data.
decode_items(map, raw_data, show_unknown, register_type, n) ==
    IF n = 0 THEN <<>>
    ELSE LET decoded   == decode_items(map, raw_data, show_unknown,
                                       register_type, n - 1)
             reg_num   == raw_data[n][1]
             hex_value == raw_data[n][2]
             reg       == get_register(map, int_base(reg_num, 10))
         IN  IF reg # <<>>
             THEN Put(decoded, reg[1].name, decode_value(reg[1], hex_value))
             ELSE IF show_unknown
             THEN Put(decoded, register_type \o Str_unknown \o reg_num,
                      <<"int", int_base(hex_value, 16)>>)
             ELSE decoded

\* A decode_registers that emits the unknown registers in every case.
decode_registers_shows_all(map, raw_data, show_unknown, register_type) ==
    decode_items(map, raw_data, TRUE, register_type, Len(raw_data))

\* RegisterMap.decode_registers.
decode_registers(map, raw_data, show_unknown, register_type) ==
    decode_items(map, raw_data, show_unknown, register_type, Len(raw_data))

\* What the loop of load_register_map has collected: the registers, the
\* keys and the shortnames it has seen, and whether it found a duplicate.
NoLoad ==
    [registers |-> <<>>, entries |-> {}, shortnames |-> {},
     duplicates |-> FALSE]

\* One pass of the inner loop of load_register_map, for the entry e of the
\* schema: a duplicate key or shortname is recorded and the entry skipped,
\* otherwise its Register is appended.
load_entry(st, e) ==
    LET entry_key == <<e.register_type, e.register_number>>
        shortname == IF e.shortname = <<>>
                     THEN e.register_type \o <<"-">>
                            \o str_int(e.register_number)
                     ELSE e.shortname
    IN  IF entry_key \in st.entries \/ shortname \in st.shortnames
        THEN [st EXCEPT !.duplicates = TRUE]
        ELSE [registers  |-> Append(st.registers,
                                    Register(e.register_number, shortname,
                                             e.datatype, e.unit_scale)),
              entries    |-> st.entries \cup {entry_key},
              shortnames |-> st.shortnames \cup {shortname},
              duplicates |-> st.duplicates]

RECURSIVE load_entries(_, _)
\* The loops of load_register_map over the first n entries of the schema.
load_entries(schema, n) ==
    IF n = 0 THEN NoLoad
    ELSE load_entry(load_entries(schema, n - 1), schema[n])

\* load_register_map: sys.exit(1) when a duplicate was found, the
\* RegisterMap of the registers otherwise.
load_register_map(schema) ==
    LET st == load_entries(schema, Len(schema))
    IN  IF st.duplicates THEN [exit |-> TRUE, registers |-> <<>>]
        ELSE [exit |-> FALSE, registers |-> RegisterMap(st.registers)]

\* The entries a schema is made of: hold and input registers 5 and 7, with
\* a shortname or without, of type uint16 or float.
Entry(type, number, shortname, datatype, unit_scale) ==
    [register_type |-> type, register_number |-> number,
     shortname |-> shortname, datatype |-> datatype,
     unit_scale |-> unit_scale]
Entries ==
    { Entry(Str_hold, 5, <<"a">>, "uint16", 10),
      Entry(Str_input, 5, <<"b">>, "float", 1),
      Entry(Str_input, 5, <<"a">>, "uint16", 10),
      Entry(Str_hold, 7, <<>>, "uint16", 10),
      Entry(Str_hold, 5, <<"c">>, "uint16", 10),
      Entry(Str_input, 17, <<>>, "float", 1) }
Schemas == UNION { [1..n -> Entries] : n \in 0..MaxDefs }

\* The items of the raw_data of a datalog entry: a register number and a
\* hex value, both strings; a dict has every key once.
Items ==
    { << <<"5">>, <<"0", "0", "e", "1">> >>,
      << <<"0", "5">>, <<"f", "f", "f", "f">> >>,
      << <<"7">>, <<"1", "0">> >>,
      << <<"1", "7">>, <<"0">> >>,
      << <<"9">>, <<"a", "b">> >> }
RawData ==
    { r \in UNION { [1..n -> Items] : n \in 0..MaxItems } :
        \A i, j \in DOMAIN r : r[i][1] = r[j][1] => i = j }

\* load_register_map returns, or exits.
Call_load_register_map ==
    /\ call.fn = "load_register_map" /\ ~call.returned
    /\ call' = Called(call.fn, call.arg, load_register_map(call.arg))
    /\ Only_call

\* decode_registers is called on the RegisterMap that was loaded.
Call_decode_registers ==
    /\ call.fn = "load_register_map" /\ call.returned /\ ~call.out.exit
    /\ \E raw_data \in RawData, show_unknown \in BOOLEAN,
          register_type \in {Str_hold, Str_input} :
          call' = Called("decode_registers",
                         <<call.out.registers, raw_data, show_unknown,
                           register_type>>,
                         decode_registers(call.out.registers, raw_data,
                                          show_unknown, register_type))
    /\ Only_call

(***************************************************************************)
(* decode_register_value of backup_inverter_config.py and of               *)
(* python_eg4_reader.py.  A Python number is an int or a float; a float is *)
(* counted in tenths.  What a function returns is tagged with its type:    *)
(* int, float, str, dict or list.                                          *)
(***************************************************************************)
PyInt(n) == <<"int", n>>
PyFloat(tenths) == <<"float", tenths>>
Tenths(a) == IF a[1] = "int" THEN 10 * a[2] ELSE a[2]
\* float(a).
to_float(a) == PyFloat(Tenths(a))
\* a * b: an int when both are ints, a float otherwise.
Mul(a, b) ==
    IF a[1] = "int" /\ b[1] = "int" THEN PyInt(a[2] * b[2])
    ELSE PyFloat((Tenths(a) * Tenths(b)) \div 10)
\* d.get(key, default) for a key that is missing (<<>>) or present.
get(v, default) == IF v = <<>> THEN default ELSE v

RECURSIVE And(_, _)
\* a & b on non-negative integers, bit by bit from the lowest.
And(a, b) ==
    IF a = 0 \/ b = 0 THEN 0
    ELSE (a % 2) * (b % 2) + 2 * And(a \div 2, b \div 2)

\* A test that takes the bit number for the mask.
flag_set_by_number(value, bit) == And(value, bit) # 0

\* bool(value & (1 << bit)).
flag_set(value, bit) == And(value, 2 ^ bit) # 0

RECURSIVE Backup_flags(_, _, _)
\* backup_inverter_config.py, the flags loop over the first n flags:
\* result[flag['name']] = bool(value & (1 << bit)).
Backup_flags(flags, value, n) ==
    IF n = 0 THEN <<>>
    ELSE Put(Backup_flags(flags, value, n - 1), flags[n].name,
             flag_set(value, flags[n].bit))

\* backup_inverter_config.py: enum_map.get(str(value), value).
Backup_enum(enum_map, value) ==
    IF str_int(value) \in DOMAIN enum_map
    THEN <<"str", enum_map[str_int(value)]>>
    ELSE PyInt(value)

\* decode_register_value of backup_inverter_config.py.
Backup_decode_register_value(register_def, value) ==
    IF register_def.display_as = "flags"
    THEN <<"dict", Backup_flags(register_def.flags, value,
                                Len(register_def.flags))>>
    ELSE IF register_def.display_as = "enum"
    THEN Backup_enum(register_def.enum_map, value)
    ELSE IF register_def.display_as = "float"
    THEN Mul(to_float(PyInt(value)),
             to_float(get(register_def.scaling, PyFloat(10))))
    ELSE PyInt(value)

\* A lookup that takes the raw value for the position in the list.
Reader_enum_by_position(enum_values, value) ==
    IF value \in DOMAIN enum_values
    THEN <<"str", enum_values[value].name>>
    ELSE PyInt(value)

\* python_eg4_reader.py: the first entry of enum_values whose value is the
\* raw value gives the name; without one the raw value is returned.
Reader_enum(enum_values, value) ==
    IF \E i \in DOMAIN enum_values : enum_values[i].value = value
    THEN <<"str", enum_values[CHOOSE i \in DOMAIN enum_values :
                     /\ enum_values[i].value = value
                     /\ \A j \in DOMAIN enum_values :
                           enum_values[j].value = value => i <= j].name>>
    ELSE PyInt(value)

RECURSIVE Reader_flags(_, _, _)
\* python_eg4_reader.py, the flags loop over the first n flags: the names
\* of the flags that are set.
Reader_flags(flags, value, n) ==
    IF n = 0 THEN <<>>
    ELSE IF flag_set(value, flags[n].bit)
    THEN Append(Reader_flags(flags, value, n - 1), flags[n].name)
    ELSE Reader_flags(flags, value, n - 1)

RECURSIVE Reader_fields(_, _, _)
\* python_eg4_reader.py, the fields loop:
\* fields[name] = (value >> (byte * 8)) & 0xFF.
Reader_fields(fields, value, n) ==
    IF n = 0 THEN <<>>
    ELSE Put(Reader_fields(fields, value, n - 1), fields[n].name,
             PyInt((value \div (256 ^ fields[n].byte)) % 256))

\* decode_register_value of python_eg4_reader.py; reg_def is <<>> for None.
Reader_decode_register_value(reg_def, value) ==
    IF reg_def = <<>> THEN PyInt(value)
    ELSE LET d == reg_def[1]
             scaled_value == Mul(PyInt(value), get(d.unit_scale, PyFloat(10)))
         IN  IF d.display_as = "enum" THEN Reader_enum(d.enum_values, value)
             ELSE IF d.display_as = "flags"
             THEN <<"list", Reader_flags(d.flags, value, Len(d.flags))>>
             ELSE IF d.display_as = "fields"
             THEN <<"dict", Reader_fields(d.fields, value, Len(d.fields))>>
             ELSE scaled_value

\* The register definitions the functions are called with.  The flags and
\* the enum tables a definition declares:
FlagLists ==
    { <<>>,
      << [bit |-> 3, name |-> "fault"] >>,
      << [bit |-> 0, name |-> "run"], [bit |-> 3, name |-> "fault"] >>,
      << [bit |-> 15, name |-> "top"], [bit |-> 3, name |-> "fault"] >> }
EnumTables ==
    { <<>>,
      << [value |-> 0, name |-> "off"], [value |-> 1, name |-> "on"] >>,
      << [value |-> 225, name |-> "big"], [value |-> 8, name |-> "eight"] >> }
\* The enum table as the JSON object enum_map: its keys are strings.
enum_map_of(table) ==
    [k \in { str_int(table[i].value) : i \in DOMAIN table } |->
        table[CHOOSE i \in DOMAIN table : str_int(table[i].value) = k].name]
\* unit_scale and scaling: missing, the int 1, 0.1, 1.0, 10.0.
Scales == { <<>>, PyInt(1), PyFloat(1), PyFloat(10), PyFloat(100) }
DisplayAs == { "flags", "enum", "float", "fields", "raw", "None" }
RegisterDefs ==
    { [display_as |-> d, flags |-> fl, enum_values |-> en,
       enum_map |-> enum_map_of(en),
       fields |-> << [byte |-> 0, name |-> "lo"],
                     [byte |-> 1, name |-> "hi"] >>,
       unit_scale |-> sc, scaling |-> sc] :
        d \in DisplayAs, fl \in FlagLists, en \in EnumTables,
        sc \in Scales }
\* The raw register values.
RawValues == { 0, 8, 9, 225, 65535 }

\* decode_register_value of backup_inverter_config.py returns.
Backup_Call_decode_register_value ==
    /\ call.fn = "decode_register_value" /\ ~call.returned
    /\ call.arg[1] = "backup_inverter_config"
    /\ call' = Called(call.fn, call.arg,
                      Backup_decode_register_value(call.arg[2], call.arg[3]))
    /\ Only_call

\* decode_register_value of python_eg4_reader.py returns.
Reader_Call_decode_register_value ==
    /\ call.fn = "decode_register_value" /\ ~call.returned
    /\ call.arg[1] = "python_eg4_reader"
    /\ call' = Called(call.fn, call.arg,
                      Reader_decode_register_value(call.arg[2], call.arg[3]))
    /\ Only_call

\* The calls of the two functions: backup_inverter_config.py calls its own
\* with a definition, python_eg4_reader.py its own with one or with None.
DecodeCalls ==
    { Asked("decode_register_value", <<"backup_inverter_config", d, v>>) :
        d \in RegisterDefs, v \in RawValues }
    \cup { Asked("decode_register_value", <<"python_eg4_reader", d, v>>) :
             d \in { <<>> } \cup { <<r>> : r \in RegisterDefs },
             v \in RawValues }

(***************************************************************************)
(* check_time_delta of python_eg4_reader.py.                               *)
(***************************************************************************)
\* bcd_to_int: ((bcd >> 4) * 10) + (bcd & 0x0F).
bcd_to_int(bcd) == (bcd \div 16) * 10 + (bcd % 16)

\* The days of a month, and the arguments datetime() takes without raising
\* ValueError.
days_in_month(year, month) ==
    IF month \in {4, 6, 9, 11} THEN 30
    ELSE IF month # 2 THEN 31
    ELSE IF year % 4 = 0 /\ (year % 100 # 0 \/ year % 400 = 0) THEN 29
    ELSE 28
datetime_ok(year, month, day, hour, minute, second) ==
    /\ year \in 1..9999 /\ month \in 1..12
    /\ day \in 1..days_in_month(year, month)
    /\ hour \in 0..23 /\ minute \in 0..59 /\ second \in 0..59

\* check_time_delta once read_registers(12, 3) has returned: None when the
\* read returned None, an empty list or fewer than 3 values; then the
\* fields are taken from values[0..3], where values[3] raises IndexError
\* on a list of 3, and datetime() raises on fields that are no date; the
\* except block returns None.  Otherwise the difference between the
\* inverter's time and the system's is returned; the model keeps the
\* inverter's time.
check_time_delta(read_ok, vals) ==
    IF ~read_ok \/ Len(vals) < 3 THEN <<"None">>
    ELSE IF Len(vals) < 4 THEN <<"None">>
    ELSE LET year   == bcd_to_int(vals[1] % 256)
                         + bcd_to_int((vals[1] \div 256) % 256) * 100
             month  == bcd_to_int(vals[2] % 256)
             day    == bcd_to_int((vals[2] \div 256) % 256)
             hour   == bcd_to_int(vals[3] % 256)
             minute == bcd_to_int((vals[3] \div 256) % 256)
             second == bcd_to_int(vals[4] % 256)
         IN  IF datetime_ok(2000 + year, month, day, hour, minute, second)
             THEN <<"time_diff", 2000 + year, month, day, hour, minute,
                    second>>
             ELSE <<"None">>

\* main() calls check_time_delta on the client it has connected:
\* read_registers(12, 3, is_input=False) is entered.
Call_check_time_delta ==
    /\ cls = "EG4" /\ pc = "idle" /\ sock = "open" /\ call.returned
    /\ Enter(<<12, 3>>)
    /\ call' = Asked("check_time_delta", <<>>)
    /\ UNCHANGED <<cls, sock, datalog_id, inverter_serial, data, packet>>
    /\ UNCHANGED <<from, session_src, env_clean>>
    /\ UNCHANGED <<envVars, device, scanVars>>

\* read_registers has returned, and check_time_delta returns.
Return_check_time_delta ==
    /\ call.fn = "check_time_delta" /\ ~call.returned /\ pc = "idle"
    /\ call' = Called(call.fn, call.arg,
                      check_time_delta(outcome = "values", values))
    /\ Only_call

(***************************************************************************)
(* The specification.                                                      *)
(***************************************************************************)
CallerNext == Connect \/ Close \/ Call
DeviceNext == DeviceAnswer \/ DeviceBeat \/ DeviceClose
CustomNext ==
    \/ Custom_Send \/ Custom_SendFail \/ Custom_Recv
    \/ Custom_RecvTimeout \/ Custom_RecvClosed
EG4Next ==
    \/ EG4_Send \/ EG4_SendFail \/ EG4_Recv1 \/ EG4_Recv2 \/ EG4_Recv3
    \/ EG4_RecvTimeout \/ EG4_RecvClosed

Next == CallerNext \/ DeviceNext \/ CustomNext \/ EG4Next

Spec == Init /\ [][Next]_vars

\* The clients facing the device that rejects requests and answers with
\* protocol version 2.
WideInit == Boot({"Custom", "EG4"}, WideDevice, FALSE)
WideSpec == WideInit /\ [][Next]_vars

\* try_connect_and_read on a CustomModbusClient of its own, and the method
\* try_connect_and_read of a client, facing a device that answers or stays
\* silent.
ScanInit == Boot({"Custom"}, ScanDevice, TRUE)
ScanNext ==
    \/ Scan_Connect \/ Scan_Initial \/ Scan_Batch
    \/ Method_Connect \/ Method_Return
    \/ DeviceAnswer
    \/ Custom_Send \/ Custom_Recv \/ Custom_RecvTimeout
ScanSpec == ScanInit /\ [][ScanNext]_vars

\* The functions of the two clients called on their own, on a client that
\* holds the initial session fields or those of a device.
CodecInit ==
    /\ Fresh({"Custom", "EG4"}, BaseDevice, FALSE, {Zero10, IdA, IdB})
    /\ call \in CodecCalls(cls)
CodecNext ==
    \/ Call_calculate_crc16
    \/ Custom_Call_build_packet \/ EG4_Call_build_packet
CodecSpec == CodecInit /\ [][CodecNext]_vars

\* eg4_registers.py loads a register schema and decodes datalog entries
\* with it.
RegisterInit ==
    /\ Fresh({"Custom"}, BaseDevice, FALSE, {Zero10})
    /\ call \in { Asked("load_register_map", sch) : sch \in Schemas }
RegisterNext == Call_load_register_map \/ Call_decode_registers
RegisterSpec == RegisterInit /\ [][RegisterNext]_vars

\* The register values the two programs have read are decoded.
DecodeInit ==
    /\ Fresh({"Custom"}, BaseDevice, FALSE, {Zero10})
    /\ call \in DecodeCalls
DecodeNext ==
    \/ Backup_Call_decode_register_value
    \/ Reader_Call_decode_register_value
DecodeSpec == DecodeInit /\ [][DecodeNext]_vars

\* main() of python_eg4_reader.py connects an EG4ModbusClient and checks the
\* inverter's clock, while the device answers and sends heartbeats.
ReaderInit == Fresh({"EG4"}, ReaderDevice, FALSE, {Zero10}) /\ call = NoCall
ReaderNext ==
    \/ Call_connect \/ Call_check_time_delta \/ Return_check_time_delta
    \/ DeviceAnswer \/ DeviceBeat
    \/ EG4_Send \/ EG4_Recv1 \/ EG4_Recv3 \/ EG4_RecvTimeout
ReaderSpec == ReaderInit /\ [][ReaderNext]_vars

\* The user of a client calls its methods one after the other, facing a
\* device that delivers whole frames.
ApiInit == Fresh({"Custom", "EG4"}, ApiDevice, FALSE, {Zero10}) /\ call = NoCall
ApiNext ==
    \/ Call_connect \/ Call_close \/ Call_read
    \/ Call_build_heartbeat_packet \/ Call_send_heartbeat
    \/ DeviceNext \/ CustomNext
    \/ EG4_Send \/ EG4_SendFail \/ EG4_Recv1 \/ EG4_Recv3
    \/ EG4_RecvTimeout \/ EG4_RecvClosed
ApiSpec == ApiInit /\ [][ApiNext]_vars

\* The same behaviours, where a client that can take a step of its read
\* call takes one: the code runs on, and every sock.recv returns or times out.
FairSpec == Spec /\ WF_vars(CustomNext) /\ WF_vars(EG4Next)

C2_SessionOnlyFromValidFrame ==
    [][ ( /\ cls = "Custom"
          /\ datalog_id' # datalog_id \/ inverter_serial' # inverter_serial
          /\ last_rx'.f # NoFrame )
        => last_rx'.crc_ok ]_vars

\* C3: the values CustomModbusClient.read_holding_registers returns come
\* from a frame whose CRC matched.
C3_ValuesOnlyFromValidFrame ==
    (cls = "Custom" /\ outcome = "values" /\ last_rx.f # NoFrame)
        => last_rx.crc_ok

\* C4: within one call a client sends a further request only after the
\* previous one was answered by a data response or failed by a timeout or
\* an error, never because a heartbeat arrived.
C4_OneOutstandingRequest ==
    [][ (sent >= 1 /\ sent' > sent)
        => last_rx.kind \in {"data", "timeout", "closed", "error"} ]_vars

\* C5: with a device that answers every request in order with a valid
\* frame delivered whole and may emit heartbeats, the values
\* CustomModbusClient.read_holding_registers(start, count) returns come from
\* the response to a request for that start and count.
C5_ValuesAnswerTheRequest ==
    (cls = "Custom" /\ env_clean /\ outcome = "values")
        => last_rx.f.req = <<start_reg, count>>

\* C6: a call of EG4ModbusClient.read_registers fails only after max_retries
\* attempts that failed for a reason other than a heartbeat: heartbeats use
\* up none of the retry budget.
C6_HeartbeatsCostNoRetry ==
    (cls = "EG4" /\ outcome = "None") => retry_count - hb_fail >= max_retries

\* C7: after a read has received a whole heartbeat frame carrying datalog
\* ID D, the client's datalog_id is D.
C7_HeartbeatSetsDatalog ==
    (last_rx.kind = "heartbeat" /\ last_rx.f # NoFrame)
        => datalog_id = last_rx.f.D

\* C8: every call of CustomModbusClient.read_holding_registers ends, by
\* returning or by raising, whatever frames the device sends.
C8_CallTerminates ==
    (cls = "Custom" /\ pc # "idle") ~> (pc = "idle")

\* C9: when every receive of a call times out, the call sends exactly
\* max_retries requests and then fails: CustomModbusClient raises,
\* EG4ModbusClient returns None; while it runs it has sent no more than
\* max_retries.
C9_ThreeAttemptsOnTimeouts ==
    all_timeouts
        => IF pc = "idle"
           THEN /\ sent = max_retries
                /\ retry_count = max_retries
                /\ outcome = IF cls = "Custom" THEN "raised" ELSE "None"
           ELSE /\ sent <= max_retries
                /\ retry_count < max_retries

\* A call of EG4ModbusClient.read_registers that only saw timeouts has ended.
C9_Witness ==
    /\ cls = "EG4" /\ pc = "idle" /\ all_timeouts
    /\ outcome = "None" /\ sent = 3

\* C10 as stated: when all attempts of CustomModbusClient time out, the
\* call has waited at least (max_retries - 1) * 1 second before it raises.
C10_BackoffOneSecond ==
    (cls = "Custom" /\ pc = "idle" /\ all_timeouts)
        => slept >= (max_retries - 1) * 1000

\* C10, amended: when all attempts of CustomModbusClient time out, the call
\* has waited delay_ms (200 ms by default) after each attempt but the last:
\* (max_retries - 1) * delay_ms in total.
C10_BackoffDelayMs ==
    (cls = "Custom" /\ pc = "idle" /\ all_timeouts)
        => slept = (max_retries - 1) * delay_ms

\* A call of CustomModbusClient that only saw timeouts has raised.
C10_Witness ==
    /\ cls = "Custom" /\ pc = "idle" /\ all_timeouts
    /\ outcome = "raised" /\ retry_count = 3

\* C11: for one batch of try_connect_and_read, no more than 3 request
\* frames are sent to the device before the batch is declared failed.
C11_ThreeRequestsPerBatch ==
    scan_pc = "batch" => prior_sent + sent <= max_retries

\* C12: a response whose first data byte (error_code) is nonzero is never
\* returned as register values by EG4ModbusClient.read_registers: it counts
\* as a failed attempt.
C12_RejectedIsNotReturned ==
    (cls = "EG4" /\ outcome = "values" /\ last_rx.f # NoFrame)
        => last_rx.f.err = 0

\* C13: when the attempt of EG4ModbusClient.read_registers receives a
\* response with error_code 0x02, the read ends in a failure that is not
\* the None a timeout ends in: it neither returns values nor that None.
C13_RejectionIsSurfaced ==
    ( /\ cls = "EG4" /\ pc = "idle" /\ retry_count = 0
      /\ last_rx.kind = "data" /\ last_rx.f # NoFrame
      /\ last_rx.f.err = 2 )
        => outcome \notin {"values", "None"}

\* C14: try_connect_and_read returns a configuration only when every batch
\* it requested was decoded: none of them failed, and none was left out.
C14_NoPartialResult ==
    (scan_pc = "done" /\ result = "config")
        => /\ Len(batch_log) = Cardinality(Batches)
           /\ \A i \in 1..Len(batch_log) : batch_log[i]

RECURSIVE FailRun(_)
\* The number of failed batches at the end of the log.
FailRun(log) ==
    IF log = <<>> \/ log[Len(log)] THEN 0
    ELSE 1 + FailRun(SubSeq(log, 1, Len(log) - 1))

\* C15: the scan of try_connect_and_read stops before the last batch
\* exactly when max_consecutive_failures batches in a row have failed: no
\* batch is requested after that many failures in a row, a scan that ended
\* with batches left has seen them, and consecutive_failures is the number
\* of batches that failed since the last one that succeeded.
C15_StopsAfterThreeFailures ==
    /\ scan_pc = "batch" => FailRun(batch_log) < max_consecutive_failures
    /\ (scan_pc = "done" /\ scan_reg >= first_batch
            /\ Len(batch_log) < Cardinality(Batches))
          => FailRun(batch_log) = max_consecutive_failures
    /\ scan_pc \in {"batch", "done"}
          => consecutive_failures = FailRun(batch_log)

\* The scan stopped with a batch left after three failed batches in a row.
C15_Witness ==
    /\ scan_pc = "done" /\ Len(batch_log) < Cardinality(Batches)
    /\ consecutive_failures = 3

C17_ReadsTheWholeFrame ==
    [][ /\ ( /\ cls = "Custom" /\ pc = "recv" /\ data = <<>>
             /\ net # <<>> /\ last_rx'.kind = "data"
             /\ Head(net).off = 0 /\ Head(net).f.kind = "data"
             /\ Head(net).f.ok )
            => net' = Tail(net)
        /\ (cls = "EG4" /\ pc' = "recv3") => from' = NoFrame ]_vars

\* C18: EG4ModbusClient.read_response reads the frame length and the
\* function byte at the offsets 4..7 from the magic bytes: when it waits for
\* the data section, the bytes it took for them are those that follow the
\* magic bytes in the buffer.
C18_ParsedAtMagic ==
    (cls = "EG4" /\ pc = "recv3" /\ find_magic(data) >= 0)
        => Slice(data, 4, 8)
             = Slice(data, find_magic(data) + 4, find_magic(data) + 8)

\* C19: CustomModbusClient.read_response takes a whole device frame for a
\* heartbeat exactly when the frame's function byte (offset 7) is 0xC1.
C19_HeartbeatByFunctionByte ==
    (cls = "Custom" /\ last_rx.f # NoFrame)
        => (last_rx.kind = "heartbeat" <=> last_rx.f.bytes[8] = 193)

\* The register values of the answer f: the content of the registers from
\* the start the request named on.
RegisterValues(f) ==
    [i \in 1..(f.req[2] + f.var.more) |-> DevReg(f.req[1] + i - 1)]

\* C20: when CustomModbusClient.read_holding_registers succeeds on a valid
\* response, element i of the list it returns is the value of register
\* start + i the response carries after the error code and the serial.
C20_ValuesAreTheRegisters ==
    (cls = "Custom" /\ outcome = "values" /\ last_rx.f # NoFrame
        /\ last_rx.crc_ok)
        => values = RegisterValues(last_rx.f)

(***************************************************************************)
(* CRC-16/MODBUS as the standard defines it, bit by bit on the register as *)
(* the set of the positions of its set bits.                               *)
(***************************************************************************)
\* The reflected polynomial 0xA001: bits 15, 13 and 0.
Poly == {0, 13, 15}
SymDiff(A, B) == (A \ B) \cup (B \ A)
bit_of(b, k) == (b \div (2 ^ k)) % 2

\* One message bit enters the register: the register is shifted right, and
\* XORed with the polynomial when the bit shifted out differs from the
\* message bit.
ref_bit(S, bit) ==
    LET sh == { i - 1 : i \in S \ {0} }
    IN  IF (0 \in S) # (bit = 1) THEN SymDiff(sh, Poly) ELSE sh

RECURSIVE ref_run(_, _, _)
\* The message bits from the j-th on enter the register S, the bits of a
\* byte lowest first; the register keeps its 16 bits.
ref_run(S, d, j) ==
    IF j = 8 * Len(d) THEN S
    ELSE LET T == ref_bit(S, bit_of(d[(j \div 8) + 1], j % 8))
         IN  IF T \subseteq 0..15 THEN ref_run(T, d, j + 1) ELSE {}

\* The register after the message d, from the initial value 0xFFFF.
ref_crc(d) == ref_run(0..15, d, 0)

RECURSIVE bits_value(_)
bits_value(S) ==
    IF S = {} THEN 0
    ELSE LET i == CHOOSE j \in S : TRUE IN (2 ^ i) + bits_value(S \ {i})

\* The reference CRC, serialized with the low byte first.
reference_crc16(d) ==
    LET v == bits_value(ref_crc(d)) IN << v % 256, v \div 256 >>

\* The reference CRC of every sequence calculate_crc16 is called on.
ReferenceCrc == [m \in Messages |-> reference_crc16(m)]

\* C21: CustomModbusClient.calculate_crc16 returns, for every byte
\* sequence, the reference CRC-16/MODBUS as 2 bytes with the low byte
\* first; for the check input "123456789" that is 0x4B37, bytes 37 4B.
C21_CrcIsModbus ==
    (call.fn = "calculate_crc16" /\ call.returned)
        => /\ Len(call.out) = 2
           /\ call.out = ReferenceCrc[call.arg]
           /\ call.arg = Check9 => call.out = <<55, 75>>

\* calculate_crc16 was called on the check input and on a byte >= 0x80.
C21_Witness ==
    /\ call.fn = "calculate_crc16" /\ call.returned
    /\ call.arg \in {Check9, <<128, 255>>}
    /\ call.out = ReferenceCrc[call.arg]

\* C22: for every address and count CustomModbusClient.build_packet
\* returns 36 bytes: magic A1 1A, protocol version 1, frame length 28,
\* reserved 1, function 0xC2, the current datalog_id, then the payload
\* (source 0, function code 3, the current inverter_serial, the address and
\* the count as u16 LE), then the CRC16 of the 34 bytes before it.
C22_RequestLayout ==
    (cls = "Custom" /\ call.fn = "build_packet" /\ call.returned)
        => /\ Len(call.out) = 36
           /\ Slice(call.out, 0, 2) = <<161, 26>>
           /\ Slice(call.out, 2, 4) = <<1, 0>>
           /\ Slice(call.out, 4, 6) = <<28, 0>>
           /\ Slice(call.out, 6, 8) = <<1, 194>>
           /\ Slice(call.out, 8, 18) = datalog_id
           /\ Slice(call.out, 18, 20) = <<0, 3>>
           /\ Slice(call.out, 20, 30) = inverter_serial
           /\ from_bytes_le(Slice(call.out, 30, 32)) = call.arg[1] % 65536
           /\ from_bytes_le(Slice(call.out, 32, 34)) = call.arg[2] % 65536
           /\ Slice(call.out, 34, 36)
                 = calculate_crc16(Slice(call.out, 0, 34))

\* build_packet(4660, 40) returned on a client that holds the datalog ID of
\* one frame and the serial of another.
C22_Witness ==
    /\ cls = "Custom" /\ call.fn = "build_packet" /\ call.returned
    /\ call.arg = <<4660, 40, FALSE>>
    /\ datalog_id = IdA /\ inverter_serial = IdB
    /\ Slice(call.out, 30, 34) = <<52, 18, 40, 0>>

\* C23: every frame EG4ModbusClient.build_packet builds, for holding and
\* for input registers, ends with the 2-byte little-endian CRC16 of the
\* header and payload before it.
C23_EG4RequestEndsWithCrc ==
    (cls = "EG4" /\ call.fn = "build_packet" /\ call.returned)
        => /\ Len(call.out) = 36
           /\ Slice(call.out, 34, 36)
                 = calculate_crc16(Slice(call.out, 0, 34))

\* C24: bytes 30..31 and 32..33 of the frame build_packet(address, count)
\* returns, of either client, decode as little-endian u16 to the address
\* and the count for inputs in 0..65535, and to the inputs modulo 65536
\* for inputs outside.
C24_AddressCountRoundTrip ==
    (call.fn = "build_packet" /\ call.returned)
        => LET address == from_bytes_le(Slice(call.out, 30, 32))
               cnt     == from_bytes_le(Slice(call.out, 32, 34))
           IN  /\ address = call.arg[1] % 65536
               /\ cnt = call.arg[2] % 65536
               /\ call.arg[1] \in 0..65535 => address = call.arg[1]
               /\ call.arg[2] \in 0..65535 => cnt = call.arg[2]

\* EG4ModbusClient.build_packet returned for an address above 65535 and a
\* negative count.
C24_Witness ==
    /\ cls = "EG4" /\ call.fn = "build_packet" /\ call.returned
    /\ call.arg = <<70000, -1, TRUE>>
    /\ Slice(call.out, 30, 34) = <<112, 17, 255, 255>>

\* C25: CustomModbusClient.build_heartbeat_packet always returns 19 bytes:
\* magic A1 1A, protocol version 2, frame length 18, reserved 1, function
\* 0xC1, the client's current datalog_id and one zero byte; no CRC follows.
C25_HeartbeatLayout ==
    (cls = "Custom" /\ call.fn = "build_heartbeat_packet")
        => /\ Len(call.out) = 19
           /\ Slice(call.out, 0, 2) = <<161, 26>>
           /\ Slice(call.out, 2, 4) = <<2, 0>>
           /\ Slice(call.out, 4, 6) = <<18, 0>>
           /\ Slice(call.out, 6, 8) = <<1, 193>>
           /\ Slice(call.out, 8, 18) = datalog_id
           /\ Slice(call.out, 18, 19) = <<0>>

\* build_heartbeat_packet returned on a client that has taken the datalog
\* ID of a response.
C25_Witness ==
    /\ cls = "Custom" /\ call.fn = "build_heartbeat_packet"
    /\ datalog_id = IdB /\ Slice(call.out, 8, 18) = IdB

\* C26: datalog_id and inverter_serial of a CustomModbusClient change only
\* where read_response processes a response: connect (a reconnect after a
\* failure included), close, build_packet, build_heartbeat_packet and
\* send_heartbeat leave both as they are, so no reconnect resets them.
C26_SessionWrittenByReadResponse ==
    [][ /\ ( /\ cls = "Custom"
             /\ datalog_id' # datalog_id
                  \/ inverter_serial' # inverter_serial )
            => (pc = "recv" /\ last_rx'.kind = "data")
        /\ ( /\ cls = "Custom"
             /\ \/ call' # call
                \/ sock' # sock
                \/ packet' # packet /\ packet' # <<>> )
            => UNCHANGED <<datalog_id, inverter_serial>> ]_vars

\* connect() succeeded on a client that holds the identity of a device it
\* talked to before.
C26_Witness ==
    /\ cls = "Custom" /\ call.fn = "connect" /\ call.out = <<TRUE>>
    /\ sock = "open" /\ datalog_id = IdB /\ inverter_serial = IdB

\* C27: when an attempt of CustomModbusClient.read_holding_registers fails
\* because the connection is closed (the peer closed it, so that a send or
\* a receive fails) and another attempt follows, the client has called
\* connect() before it sends that attempt's request: it holds a new
\* connection, or no socket when connect() failed.
C27_ReconnectsWhenClosed ==
    [][ ( /\ cls = "Custom" /\ sock = "open" /\ peer = "closed"
          /\ retry_count' = retry_count + 1 /\ pc' = "loop"
          /\ last_rx'.kind \in {"closed", "error"} )
        => (sock' = "None" \/ peer' = "up") ]_vars

\* C28: close() of either client sets sock to None and raises nothing,
\* and on a client without a socket (closed before, or never connected) it
\* changes nothing.
C28_CloseIsIdempotent ==
    [][ (call'.fn = "close" /\ call' # call)
        => /\ sock' = "None"
           /\ call'.out = <<>>
           /\ sock = "None" => UNCHANGED <<clientVars, envVars, ghostVars>>
      ]_vars

\* C29: a register definition load_register_map has loaded is looked up by
\* type and number: every entry of a schema it loads without exiting,
\* hold and input registers of one number included, is retrievable from
\* the RegisterMap under its number, and none has replaced another.
C29_BothTypesRetrievable ==
    (call.fn = "load_register_map" /\ call.returned /\ ~call.out.exit)
        => \A i \in DOMAIN call.arg :
              /\ call.arg[i].register_number \in DOMAIN call.out.registers
              /\ call.out.registers[call.arg[i].register_number].name
                    = load_entries(call.arg, i).registers[i].name

\* C30: decode_registers emits every register of raw_data that has no
\* definition as its raw integer value under the key of the unknown
\* register when show_unknown is true, and leaves it out when show_unknown
\* is false; a register that has a definition is in the result under the
\* definition's name in both cases.
C30_UnknownRegisters ==
    (call.fn = "decode_registers" /\ call.returned)
        => \A i \in DOMAIN call.arg[2] :
              LET map     == call.arg[1]
                  reg_num == call.arg[2][i][1]
                  number  == int_base(reg_num, 10)
                  key     == call.arg[4] \o Str_unknown \o reg_num
              IN  IF number \in DOMAIN map
                  THEN map[number].name \in DOMAIN call.out
                  ELSE IF call.arg[3]
                  THEN /\ key \in DOMAIN call.out
                       /\ call.out[key]
                             = <<"int", int_base(call.arg[2][i][2], 16)>>
                  ELSE key \notin DOMAIN call.out

\* decode_registers returned for a raw_data with a register that has a
\* definition and one that has none, with show_unknown false.
C30_Witness ==
    /\ call.fn = "decode_registers" /\ call.returned
    /\ ~call.arg[3]
    /\ call.arg[2] = << << <<"5">>, <<"0", "0", "e", "1">> >>,
                        << <<"9">>, <<"a", "b">> >> >>
    /\ 5 \in DOMAIN call.arg[1]
    /\ DOMAIN call.out = { call.arg[1][5].name }

\* The definition and the raw value of a decode_register_value call that
\* has returned.
Decoded_def == IF call.arg[1] = "python_eg4_reader" THEN call.arg[2][1]
               ELSE call.arg[2]
Decoded_by(module, display) ==
    /\ call.fn = "decode_register_value" /\ call.returned
    /\ call.arg[1] = module /\ call.arg[2] # <<>>
    /\ Decoded_def.display_as \in display

\* C31: decode_register_value of backup_inverter_config.py, for a
\* definition displayed as flags, returns a dict that maps the name of
\* every declared flag to a boolean, true exactly when the flag's bit is
\* set in the raw value; bit 3 named fault and the raw value 8 give
\* {fault: true}.
C31_FlagsAreNamedBits ==
    Decoded_by("backup_inverter_config", {"flags"})
        => LET flags == Decoded_def.flags
               raw   == call.arg[3]
           IN  /\ call.out[1] = "dict"
               /\ DOMAIN call.out[2] = { flags[i].name : i \in DOMAIN flags }
               /\ \A i \in DOMAIN flags :
                     call.out[2][flags[i].name]
                       = ((raw \div (2 ^ flags[i].bit)) % 2 = 1)

\* Bit 3 named fault, raw value 8: {fault: true}.
C31_Witness ==
    /\ Decoded_by("backup_inverter_config", {"flags"})
    /\ Decoded_def.flags = << [bit |-> 3, name |-> "fault"] >>
    /\ call.arg[3] = 8
    /\ call.out = <<"dict", [n \in {"fault"} |-> TRUE]>>

\* C32: both decode_register_value functions, for a definition displayed as
\* enum, return the name the enum table of the definition has for the raw
\* value, and the raw value itself when the table has no entry for it.
C32_EnumLookup ==
    /\ Decoded_by("backup_inverter_config", {"enum"})
         => LET table == Decoded_def.enum_map
                raw   == call.arg[3]
            IN  IF \E k \in DOMAIN table : int_base(k, 10) = raw
                THEN \E k \in DOMAIN table :
                        /\ int_base(k, 10) = raw
                        /\ call.out = <<"str", table[k]>>
                ELSE call.out = <<"int", raw>>
    /\ Decoded_by("python_eg4_reader", {"enum"})
         => LET table == Decoded_def.enum_values
                raw   == call.arg[3]
            IN  IF \E i \in DOMAIN table : table[i].value = raw
                THEN \E i \in DOMAIN table :
                        /\ table[i].value = raw
                        /\ call.out = <<"str", table[i].name>>
                ELSE call.out = <<"int", raw>>

\* The function of python_eg4_reader.py found the name of 8 in the second
\* entry of the table.
C32_Witness ==
    /\ Decoded_by("python_eg4_reader", {"enum"})
    /\ call.arg[3] = 8
    /\ call.out = <<"str", "eight">>

\* C33: both decode_register_value functions, for a definition displayed as
\* raw or without display_as and with a unit_scale s, return the raw value
\* times s; unit_scale 0.1 and the raw value 225 give 22.5.
C33_RawIsScaled ==
    ( /\ call.fn = "decode_register_value" /\ call.returned
      /\ call.arg[2] # <<>>
      /\ Decoded_def.display_as \in {"raw", "None"}
      /\ Decoded_def.unit_scale # <<>> )
        => /\ call.out[1] \in {"int", "float"}
           /\ 10 * Tenths(call.out)
                 = Tenths(PyInt(call.arg[3])) * Tenths(Decoded_def.unit_scale)
           /\ (call.arg[3] = 225 /\ Decoded_def.unit_scale = PyFloat(1))
                 => call.out = PyFloat(225)

\* C34: when try_connect_and_read has read a batch at start_reg and the
\* read returned the words w_0..w_(n-1), register start_reg + i is decoded
\* from w_i for every i < n (here: for every such register the schema
\* defines, config_data gets the entry of that raw value), and the batch
\* succeeds whether n is odd or even.
C34_RegisterPerWord ==
    [][ ( /\ scan_pc = "batch" /\ pc = "idle" /\ outcome = "values"
          /\ (batch_log' # batch_log \/ retry' # retry) )
          => /\ \A i \in 0..(Len(values) - 1) :
                   (scan_reg + i) \in hold_registers
                     => /\ (scan_reg + i) \in DOMAIN config_data'
                        /\ config_data'[scan_reg + i] = values[i + 1]
             /\ batch_log' = Append(batch_log, TRUE) ]_vars

\* The three values are the clock registers 12..14 with valid fields: each
\* byte is a BCD byte, and year and month, day and hour, minute and second
\* make a date and a time.
IsBcd(b) == b \div 16 <= 9 /\ b % 16 <= 9
ValidClock(vals) ==
    /\ Len(vals) = 3
    /\ \A i \in 1..3 : IsBcd(vals[i] % 256) /\ IsBcd(vals[i] \div 256)
    /\ datetime_ok(2000 + bcd_to_int(vals[1] % 256),
                   bcd_to_int(vals[1] \div 256),
                   bcd_to_int(vals[2] % 256), bcd_to_int(vals[2] \div 256),
                   bcd_to_int(vals[3] % 256), bcd_to_int(vals[3] \div 256))

\* C35: when read_registers(12, 3) has returned exactly the three register
\* values asked for and they hold valid BCD date and time fields,
\* check_time_delta returns a time difference; it returns None only when
\* the read failed or returned fewer than three values.
C35_ThreeValuesGiveADelta ==
    ( /\ call.fn = "check_time_delta" /\ call.returned
      /\ outcome = "values" /\ ValidClock(values)
      /\ values = <<DevReg(12), DevReg(13), DevReg(14)>> )
        => call.out[1] = "time_diff"

\* C36: when EG4ModbusClient.read_response has received a heartbeat frame,
\* it has sent one heartbeat reply and nothing else: protocol version 2,
\* frame length 13, function 0xC1, the datalog ID of the heartbeat it
\* received and one zero byte; and it has returned None, so that the read
\* has no values from it.
C36_HeartbeatIsAnswered ==
    (cls = "EG4" /\ last_rx.kind = "heartbeat" /\ last_rx.f # NoFrame)
        => /\ last_rx.reply = magic \o <<2, 0>> \o <<13, 0>> \o <<1, 193>>
                                 \o last_rx.f.D \o <<0>>
           /\ outcome # "values"

\* C37: when the module-level try_connect_and_read or the method
\* CustomModbusClient.try_connect_and_read has ended, however it ended, the
\* client has no socket: client.sock is None.
C37_SocketClosedOnExit ==
    scan_pc = "done" => sock = "None"

\* try_connect_and_read has connected, read every batch and returned the
\* configuration.
C37_Witness ==
    /\ scan_pc = "done" /\ result = "config" /\ sock = "None"
    /\ Len(batch_log) = Cardinality(Batches)

AllBatches == range_step(first_batch, address_space)
AllBatchesContiguous ==
    \A b \in AllBatches :
        /\ batch_count(b) >= 1
        /\ b + batch_count(b) <= address_space
        /\ \/ b + batch_count(b) \in AllBatches
           \/ b + batch_count(b) = address_space

\* C39: the batches try_connect_and_read requests after its initial read
\* are contiguous and do not overlap: the k-th starts at 20 + 20k, each has
\* a count of at least 1 and start + count <= 65536, and without an early
\* stop they cover the registers 20..65535 exactly.
C39_BatchesAreContiguous ==
    /\ AllBatchesContiguous
    /\ (scan_pc = "batch" /\ pc # "idle")
          => /\ start_reg = first_batch + batch_step * Len(batch_log)
             /\ count = batch_count(start_reg)
             /\ count >= 1 /\ start_reg + count <= address_space
    /\ ( /\ scan_pc = "done" /\ scan_reg >= first_batch
         /\ consecutive_failures < max_consecutive_failures )
          => Len(batch_log) = Cardinality(Batches)

\* The request of the third batch is on its way.
C39_Witness ==
    /\ scan_pc = "batch" /\ pc = "recv" /\ sent = 1
    /\ start_reg = 60 /\ count = 20 /\ Len(batch_log) = 2

====
